---- MODULE Spec2Model ----
(***************************************************************************)
(* Model of the MHW utility layer of the media driver                      *)
(* (media_softlet/agnostic/common/hw/mhw_utilities_next.cpp):              *)
(*   - Mhw_SetMocsTableIndex            (MOCS / cache-policy resolver)     *)
(*   - Mhw_AddResourceToCmd_GfxAddress  (direct address patching)          *)
(*   - Mhw_AddResourceToCmd_PatchList   (deferred address patching)        *)
(*   - Mhw_AllocateBb / Mhw_FreeBb / Mhw_LockBb / Mhw_UnlockBb             *)
(*                                                                         *)
(* 32-bit and 64-bit machine words are modelled as the set of their one    *)
(* bits (bit 0 is the least significant), so that masks, shifts and        *)
(* wrapping additions are computed at the width the code computes them.    *)
(***************************************************************************)
EXTENDS Integers, Sequences, FiniteSets, TLC

VARIABLES
    params,     \* the MHW_RESOURCE_PARAMS object the caller passes (mutated in place)
    cmd,        \* command buffer memory: DWORD index -> word
    patchList,  \* entries the device layer recorded through pfnSetPatchEntry
    call,       \* record of the last operation: inputs, device answers, status, pre-state
    osResource, \* what the device layer answers for the patched resource
    bb,         \* the MHW_BATCH_BUFFER objects
    dev,        \* device-layer view of each batch buffer's resource
    listHead,   \* the caller's batch buffer list head (its own pBatchBufferList)
    prolog,     \* what Mhw_SendGenericPrologCmdNext is called with and finds
    stream,     \* the commands Mhw_SendGenericPrologCmdNext has added, in order
    poly,       \* a polyphase calculator's inputs and the iCoefs table it fills
    nOps        \* number of calls made so far

vars == <<params, cmd, patchList, call, osResource, bb, dev, listHead, prolog, stream, poly,
          nOps>>

-----------------------------------------------------------------------------
(* Machine words *)

B32 == 0..31
B64 == 0..63

Zero == {}
Ones32 == B32

\* bits lo..hi
BitRange(lo, hi) == {i \in 0..63 : lo <= i /\ i <= hi}

\* a small natural number as a word
FromNat(n) == {i \in 0..30 : (n \div (2^i)) % 2 = 1}

RECURSIVE AddBits(_, _, _, _, _)
AddBits(a, b, i, c, w) ==
    IF i = w THEN {}
    ELSE LET ai == i \in a
             bi == i \in b
             s  == (ai # bi) # c
             co == (ai /\ bi) \/ (c /\ (ai \/ bi))
         IN (IF s THEN {i} ELSE {}) \cup AddBits(a, b, i + 1, co, w)

\* a + b modulo 2^32 / 2^64
Add32(a, b) == AddBits(a, b, 0, FALSE, 32)
Add64(a, b) == AddBits(a, b, 0, FALSE, 64)

Not32(a) == B32 \ a
And(a, b) == a \cap b
Or(a, b)  == a \cup b

\* a << n, truncated to 32 bits
Shl32(a, n) == {i + n : i \in a} \cap B32
\* a >> n (logical)
Shr(a, n) == {i - n : i \in {j \in a : j >= n}}

\* a - 1 modulo 2^32
Dec32(a) == Add32(a, Ones32)

\* low and high halves of a 64-bit word
Lo32(a) == a \cap B32
Hi32(a) == Shr(a, 32)
Cat64(hi, lo) == {i + 32 : i \in hi} \cup lo

\* MOS_ALIGN_CEIL(n, alignment) on uint32_t operands
MOS_ALIGN_CEIL(n, alignment) ==
    And(Add32(n, Dec32(alignment)), Not32(Dec32(alignment)))

-----------------------------------------------------------------------------
(* Status codes and null handles *)

MOS_STATUS_SUCCESS           == "MOS_STATUS_SUCCESS"
MOS_STATUS_NULL_POINTER      == "MOS_STATUS_NULL_POINTER"
MOS_STATUS_INVALID_PARAMETER == "MOS_STATUS_INVALID_PARAMETER"
MOS_STATUS_UNKNOWN           == "MOS_STATUS_UNKNOWN"
MOS_STATUS_NO_SPACE          == "MOS_STATUS_NO_SPACE"

\* statuses a failing device-layer call may return
DevFailures == {MOS_STATUS_NO_SPACE}
DevStatuses == {MOS_STATUS_SUCCESS} \cup DevFailures

Null == "nullptr"
\* the null pointer among the pointers into command memory (DWORD indices)
NullDw == 0 - 1

-----------------------------------------------------------------------------
(* Mhw_SetMocsTableIndex *)

\* the 6-bit index in bits 1..6 of the cache-control DWORD
MocsIndexOf(DwordValue) == And(Shr(DwordValue, 1), FromNat(63))

\* a resolver that keeps the previous content of the field (ORs the index in)
MocsKeepMask_KeepsField(bitFieldLow, bitFieldHigh) == Ones32

\* the mask of the bits the resolver keeps
MocsKeepMask(bitFieldLow, bitFieldHigh) ==
    IF bitFieldHigh = 31
    THEN Dec32(Shl32(FromNat(1), bitFieldLow))
    ELSE Or(Not32(Dec32(Shl32(FromNat(1), bitFieldHigh + 1))),
            Dec32(Shl32(FromNat(1), bitFieldLow)))

\* a range check that forgets the order of the two bounds
MocsRangeInvalid_NoOrderCheck(bitFieldLow, bitFieldHigh) == bitFieldHigh > 31

\* the bit range the resolver rejects
MocsRangeInvalid(bitFieldLow, bitFieldHigh) ==
    bitFieldLow > bitFieldHigh \/ bitFieldHigh > 31

\* the value OR-ed into the destination
MocsFieldValue(DwordValue, bitFieldLow) ==
    Shl32(MocsIndexOf(DwordValue), bitFieldLow)

\* result: the status and the memory after the call.  mem is the memory the
\* destination pointer points into, mocs the MHW_MOCS_PARAMS, DwordValue the
\* answer of pfnGetResourceCachePolicyMemoryObject.
Mhw_SetMocsTableIndex(osInterface, resource, mocs, mem, DwordValue) ==
    IF resource = Null \/ osInterface = Null
    THEN [status |-> MOS_STATUS_NULL_POINTER, mem |-> mem, asked |-> FALSE]
    ELSE IF mocs.mocsTableIndex = NullDw
    THEN [status |-> MOS_STATUS_SUCCESS, mem |-> mem, asked |-> FALSE]
    ELSE IF MocsRangeInvalid(mocs.bitFieldLow, mocs.bitFieldHigh)
    THEN [status |-> MOS_STATUS_INVALID_PARAMETER, mem |-> mem, asked |-> FALSE]
    ELSE LET data  == mocs.mocsTableIndex
             value == And(mem[data], MocsKeepMask(mocs.bitFieldLow, mocs.bitFieldHigh))
         IN [status |-> MOS_STATUS_SUCCESS,
             mem    |-> [mem EXCEPT ![data] =
                            Or(value, MocsFieldValue(DwordValue, mocs.bitFieldLow))],
             asked  |-> TRUE]

-----------------------------------------------------------------------------
(* Mhw_AddResourceToCmd_GfxAddress and Mhw_AddResourceToCmd_PatchList *)

\* command types for which the OCA hook DumpResourceInfo is invoked
s_OCAResourceInfoType ==
    {"MOS_MI_BATCH_BUFFER_START", "MOS_VEBOX_STATE", "MOS_VEBOX_DI_IECP",
     "MOS_VEBOX_TILING_CONVERT", "MOS_SFC_STATE", "MOS_STATE_BASE_ADDR",
     "MOS_SURFACE_STATE", "MOS_SURFACE_STATE_ADV", "MOS_MFX_PIPE_BUF_ADDR",
     "MOS_MFX_INDIRECT_OBJ_BASE_ADDR", "MOS_MFX_BSP_BUF_BASE_ADDR",
     "MOS_MFX_AVC_DIRECT_MODE", "MOS_MFX_VP8_PIC", "MOS_HUC_IND_OBJ_BASE_ADDR",
     "MOS_HUC_DMEM", "MOS_HUC_VIRTUAL_ADDR", "MOS_VDENC_PIPE_BUF_ADDR",
     "MOS_BINDLESS_STATELESS_SURFACE"}

\* the patch types whose resource offset is the raw destination DWORD
RawOffsetPatchTypes ==
    {"MOS_PATCH_TYPE_UV_Y_OFFSET", "MOS_PATCH_TYPE_PITCH", "MOS_PATCH_TYPE_V_Y_OFFSET"}

\* status MHW_CHK_COND returns when its condition holds
MHW_CHK_COND_Status == MOS_STATUS_UNKNOWN

\* one step of an operation: a device-layer call, a sub-call, a store into command
\* memory or a hook, with the status it returned (success for a void step)
Ev(fn, st) == [fn |-> fn, status |-> st]
Ok(fn) == Ev(fn, MOS_STATUS_SUCCESS)

\* a registration that declares every resource written
RegisterResource_AlwaysWrite(p, st) ==
    [fn |-> "RegisterResource", status |-> st, bWrite |-> TRUE]

\* pfnRegisterResource(pOsInterface, presResource, bIsWritable ? true : false,
\* bIsWritable ? true : false), with the status the device layer returned
RegisterResource(p, st) ==
    [fn |-> "RegisterResource", status |-> st, bWrite |-> p.bIsWritable]

\* pfnSetPatchEntry: the device layer records the entry when it succeeds
SetPatchEntry(pl, entry, status) ==
    IF status = MOS_STATUS_SUCCESS THEN Append(pl, entry) ELSE pl

\* a store of the low DWORD that drops the reserved low bits of the destination
MergeLow_Overwrite(old, dwGfxAddrBottom, dwMask) == And(dwGfxAddrBottom, dwMask)

\* the low DWORD of an address merged with the reserved low bits of the
\* destination: (*pdwCmd & ~dwMask) | (dwGfxAddrBottom & dwMask)
MergeLow(old, dwGfxAddrBottom, dwMask) ==
    Or(And(old, Not32(dwMask)), And(dwGfxAddrBottom, dwMask))

\* the two DWORD stores of a 64-bit address at position pdwCmd
WriteAddress(mem, pdwCmd, ui64GfxAddress, dwMask) ==
    [mem EXCEPT ![pdwCmd]     = MergeLow(mem[pdwCmd], Lo32(ui64GfxAddress), dwMask),
                ![pdwCmd + 1] = Hi32(ui64GfxAddress)]

\* the patch offset to the command buffer
PatchOffset(cb, p) ==
    IF p.dwOffsetInSSH > 0
    THEN p.dwOffsetInSSH + p.dwLocationInCmd * 4
    ELSE cb.iOffset + p.dwLocationInCmd * 4

\* an OCA hook invoked for every command type
OcaDump_EveryType(p) == <<Ok("DumpResourceInfo")>>

\* the OCA hook, invoked for the allow-listed command types only
OcaDump(p) ==
    IF p.HwCommandType \in s_OCAResourceInfoType THEN <<Ok("DumpResourceInfo")>> ELSE <<>>

\* an upper-bound test that never finds a second field
UpperBoundConfigured_Never(p) == FALSE

\* an upper-bound test that also takes offset 0 for a configured field
UpperBoundConfigured_Always(p) == p.dwUpperBoundLocationOffsetFromCmd >= 0

\* whether the parameters name a second, upper-bound address field
UpperBoundConfigured(p) == p.dwUpperBoundLocationOffsetFromCmd > 0

\* the zero address test of the direct path
GfxAddressRejected(ui64GfxAddress) == ui64GfxAddress = Zero

\* dv holds the device layer's answers: reg (pfnRegisterResource), gfx
\* (pfnGetResourceGfxAddress), ctrl (pfnGetResourceCachePolicyMemoryObject),
\* idx (pfnGetResourceAllocationIndex), patch1 and patch2 (pfnSetPatchEntry).
\* The result holds the status, the parameter object, the memory and the patch
\* list after the call, and the sequence of device-layer calls, stores and hooks.
Mhw_AddResourceToCmd_GfxAddress(osInterface, cb, p, mem, pl, dv) ==
    LET Out(st, pp, mm, ll, lg) ==
            [status |-> st, params |-> pp, mem |-> mm, patchList |-> ll, log |-> lg]
    IN
    IF osInterface = Null \/ p.presResource = Null \/ cb.pCmdBase = Null
    THEN Out(MOS_STATUS_NULL_POINTER, p, mem, pl, <<>>)
    ELSE IF dv.reg # MOS_STATUS_SUCCESS
    THEN Out(dv.reg, p, mem, pl, <<RegisterResource(p, dv.reg)>>)
    ELSE
    LET dwAlign  == Shl32(FromNat(1), p.dwLsbNum)
        dwMask   == Shl32(Ones32, p.dwLsbNum)
        p1       == [p EXCEPT !.dwOffset = MOS_ALIGN_CEIL(p.dwOffset, dwAlign)]
        ui64GfxAddress == Add64(dv.gfx, p1.dwOffset)
        log1     == <<RegisterResource(p, dv.reg), Ok("GetResourceGfxAddress")>>
    IN
    IF GfxAddressRejected(ui64GfxAddress)
    THEN Out(MHW_CHK_COND_Status, p1, mem, pl, log1)
    ELSE
    LET mem1  == WriteAddress(mem, p1.pdwCmd, ui64GfxAddress, dwMask)
        mocs  == Mhw_SetMocsTableIndex(osInterface, p1.presResource, p1.mocsParams,
                                       mem1, dv.ctrl)
        mem2  == mocs.mem
        log2  == log1 \o <<Ok("WriteCmd"), Ev("Mhw_SetMocsTableIndex", mocs.status)>>
        \* the status of Mhw_SetMocsTableIndex is not looked at
        uiPatchOffset == PatchOffset(cb, p1)
        entry1 == [uiAllocationIndex |-> dv.idx,
                   uiResourceOffset  |-> p1.dwOffset,
                   uiPatchOffset     |-> uiPatchOffset,
                   bWrite            |-> p1.bIsWritable,
                   HwCommandType     |-> p1.HwCommandType,
                   forceDwordOffset  |-> p1.dwSharedMocsOffset,
                   bUpperBoundPatch  |-> FALSE,
                   patchType         |-> "MOS_PATCH_TYPE_BASE_ADDRESS",
                   shiftAmount       |-> 0,
                   shiftDirection    |-> 0,
                   offsetInSSH       |-> 0,
                   presResource      |-> p1.presResource]
        pl1    == SetPatchEntry(pl, entry1, dv.patch1)
        log3   == log2 \o <<Ok("GetResourceAllocationIndex"),
                             Ev("SetPatchEntry", dv.patch1)>>
    IN
    IF dv.patch1 # MOS_STATUS_SUCCESS
    THEN Out(dv.patch1, p1, mem2, pl1, log3)
    ELSE IF UpperBoundConfigured(p1)
    THEN
        LET dwSize == MOS_ALIGN_CEIL(p1.dwSize, dwAlign)
            ui64GfxAddressUpperBound == Add64(ui64GfxAddress, dwSize)
            p2     == [p1 EXCEPT !.dwSize = dwSize,
                                 !.pdwCmd = p1.pdwCmd + p1.dwUpperBoundLocationOffsetFromCmd]
            mem3   == WriteAddress(mem2, p2.pdwCmd, ui64GfxAddressUpperBound, dwMask)
            entry2 == [uiAllocationIndex |-> dv.idx,
                       uiResourceOffset  |-> Add32(p2.dwOffset, p2.dwSize),
                       uiPatchOffset     |-> uiPatchOffset
                                             + p2.dwUpperBoundLocationOffsetFromCmd * 4,
                       bWrite            |-> FALSE,
                       HwCommandType     |-> "MOS_HW_COMMAND_ZERO",
                       forceDwordOffset  |-> 0,
                       bUpperBoundPatch  |-> TRUE,
                       patchType         |-> "MOS_PATCH_TYPE_BASE_ADDRESS",
                       shiftAmount       |-> 0,
                       shiftDirection    |-> 0,
                       offsetInSSH       |-> 0,
                       presResource      |-> p2.presResource]
            pl2    == SetPatchEntry(pl1, entry2, dv.patch2)
            log4   == log3 \o <<Ok("WriteCmd"), Ev("SetPatchEntry", dv.patch2)>>
        IN IF dv.patch2 # MOS_STATUS_SUCCESS
           THEN Out(dv.patch2, p2, mem3, pl2, log4)
           ELSE Out(MOS_STATUS_SUCCESS, p2, mem3, pl2, log4 \o OcaDump(p2))
    ELSE Out(MOS_STATUS_SUCCESS, p1, mem2, pl1, log3 \o OcaDump(p1))

\* the low dwLsbNum bits of a DWORD: x & ((1 << dwLsbNum) - 1)
LsbOf(x, dwLsbNum) == And(x, Dec32(Shl32(FromNat(1), dwLsbNum)))

\* the resource offset the deferred path records in its first entry
PatchListResourceOffset(p, dwOffset, memAfterMocs) ==
    IF p.patchType \in RawOffsetPatchTypes
    THEN memAfterMocs[p.pdwCmd]
    ELSE dwOffset

Mhw_AddResourceToCmd_PatchList(osInterface, cb, p, mem, pl, dv) ==
    LET Out(st, pp, mm, ll, lg) ==
            [status |-> st, params |-> pp, mem |-> mm, patchList |-> ll, log |-> lg]
    IN
    IF osInterface = Null \/ p.presResource = Null
    THEN Out(MOS_STATUS_NULL_POINTER, p, mem, pl, <<>>)
    ELSE IF dv.reg # MOS_STATUS_SUCCESS
    THEN Out(dv.reg, p, mem, pl, <<RegisterResource(p, dv.reg)>>)
    ELSE
    LET dwLsbNum == p.dwLsbNum
        dwOffset == Or(p.dwOffset, LsbOf(mem[p.pdwCmd], dwLsbNum))
        mocs     == Mhw_SetMocsTableIndex(osInterface, p.presResource, p.mocsParams,
                                          mem, dv.ctrl)
        mem1     == mocs.mem
        \* the status of Mhw_SetMocsTableIndex is not looked at
        uiPatchOffset == PatchOffset(cb, p)
        entry1 == [uiAllocationIndex |-> dv.idx,
                   uiResourceOffset  |-> PatchListResourceOffset(p, dwOffset, mem1),
                   uiPatchOffset     |-> uiPatchOffset,
                   bWrite            |-> p.bIsWritable,
                   HwCommandType     |-> p.HwCommandType,
                   forceDwordOffset  |-> p.dwSharedMocsOffset,
                   bUpperBoundPatch  |-> FALSE,
                   patchType         |-> p.patchType,
                   shiftAmount       |-> p.shiftAmount,
                   shiftDirection    |-> p.shiftDirection,
                   offsetInSSH       |-> p.dwOffsetInSSH,
                   presResource      |-> p.presResource]
        pl1    == SetPatchEntry(pl, entry1, dv.patch1)
        log1   == <<RegisterResource(p, dv.reg), Ok("GetResourceAllocationIndex"),
                    Ev("Mhw_SetMocsTableIndex", mocs.status),
                    Ev("SetPatchEntry", dv.patch1)>>
    IN
    IF dv.patch1 # MOS_STATUS_SUCCESS
    THEN Out(dv.patch1, p, mem1, pl1, log1)
    ELSE IF UpperBoundConfigured(p)
    THEN
        LET p2  == [p EXCEPT !.pdwCmd = p.pdwCmd + p.dwUpperBoundLocationOffsetFromCmd]
            dwOffsetUb ==
                Or(MOS_ALIGN_CEIL(Add32(p2.dwOffset, p2.dwSize),
                                  Shl32(FromNat(1), dwLsbNum)),
                   LsbOf(mem1[p2.pdwCmd], dwLsbNum))
            entry2 == [uiAllocationIndex |-> dv.idx,
                       uiResourceOffset  |-> dwOffsetUb,
                       uiPatchOffset     |-> uiPatchOffset
                                             + p2.dwUpperBoundLocationOffsetFromCmd * 4,
                       bWrite            |-> FALSE,
                       HwCommandType     |-> "MOS_HW_COMMAND_ZERO",
                       forceDwordOffset  |-> 0,
                       bUpperBoundPatch  |-> TRUE,
                       patchType         |-> p2.patchType,
                       shiftAmount       |-> IF dwLsbNum # 0 THEN dwLsbNum
                                                             ELSE p2.shiftAmount,
                       shiftDirection    |-> IF dwLsbNum # 0 THEN 0
                                                             ELSE p2.shiftDirection,
                       offsetInSSH       |-> p2.dwOffsetInSSH,
                       presResource      |-> p2.presResource]
            pl2    == SetPatchEntry(pl1, entry2, dv.patch2)
            log2   == log1 \o <<Ev("SetPatchEntry", dv.patch2)>>
        IN IF dv.patch2 # MOS_STATUS_SUCCESS
           THEN Out(dv.patch2, p2, mem1, pl2, log2)
           ELSE Out(MOS_STATUS_SUCCESS, p2, mem1, pl2, log2 \o OcaDump(p2))
    ELSE Out(MOS_STATUS_SUCCESS, p, mem1, pl1, log1 \o OcaDump(p))

-----------------------------------------------------------------------------
(* Batch buffers: Mhw_AllocateBb, Mhw_FreeBb, Mhw_LockBb, Mhw_UnlockBb *)

MHW_CACHELINE_SIZE == 64
MOS_PAGE_SIZE      == 4096

NullBb == 0

\* a uint32_t read as int32_t
ToInt32(w) ==
    LET RECURSIVE Sum(_)
        Sum(i) == IF i > 30 THEN 0 ELSE (IF i \in w THEN 2^i ELSE 0) + Sum(i + 1)
    IN IF 31 \in w THEN (Sum(0) - 2147483647) - 1 ELSE Sum(0)

\* a * n modulo 2^32, n a small natural number
RECURSIVE Mul32(_, _)
Mul32(a, n) == IF n = 0 THEN Zero ELSE Add32(a, Mul32(a, n - 1))

\* a padding without the reserve of 8 cache lines
PaddedSize_NoReserve(dwSize) == MOS_ALIGN_CEIL(dwSize, FromNat(MOS_PAGE_SIZE))

\* dwSize += 8 * MHW_CACHELINE_SIZE; dwSize = MOS_ALIGN_CEIL(dwSize, MOS_PAGE_SIZE)
PaddedSize(dwSize) ==
    MOS_ALIGN_CEIL(Add32(dwSize, FromNat(8 * MHW_CACHELINE_SIZE)), FromNat(MOS_PAGE_SIZE))

\* the memory pool of the allocation request
MemType(notLockable, inSystemMem) ==
    IF notLockable THEN "MOS_MEMPOOL_DEVICEMEMORY"
    ELSE IF inSystemMem THEN "MOS_MEMPOOL_SYSTEMMEMORY"
    ELSE "MOS_MEMPOOL_VIDEOMEMORY"

\* a batch buffer object before Mhw_AllocateBb has filled it
EmptyBb ==
    [OsResource |-> Null, iSize |-> 0, count |-> 0, iRemaining |-> 0, iCurrent |-> 0,
     bLocked |-> FALSE, pData |-> Null, bBusy |-> FALSE, dwCmdBufId |-> 0,
     pNext |-> NullBb, pPrev |-> NullBb]

\* the device layer's view of a resource that was never allocated
NoResource == [state |-> "none", locked |-> FALSE]

\* bbs: the batch buffer objects, devs: the device layer's resources, id: the
\* buffer operated on.  The result holds the status, both after the call, and the
\* device-layer calls made.
BbOut(st, bbs, devs, lg) == [status |-> st, bb |-> bbs, dev |-> devs, log |-> lg]

\* the allocation request Mhw_AllocateBb hands to pfnAllocateResource
AllocRequest(dwSize, batchCount, notLockable, inSystemMem) ==
    [Type |-> "MOS_GFXRES_BUFFER", TileType |-> "MOS_TILE_LINEAR",
     dwBytes |-> Mul32(PaddedSize(dwSize), batchCount),
     ResUsageType |-> "MOS_HW_RESOURCE_USAGE_MEDIA_BATCH_BUFFERS",
     bNotLockable |-> notLockable,
     dwMemType |-> MemType(notLockable, inSystemMem)]

\* MHW_ASSERT(!(notLockable && inSystemMem)) returns nothing: the call goes on to
\* the allocation whatever the two flags are.
Mhw_AllocateBb(bbs, devs, id, pBatchBufferList, dwSize, batchCount, notLockable, inSystemMem, allocStatus) ==
    LET padded    == PaddedSize(dwSize)
        request   == AllocRequest(dwSize, batchCount, notLockable, inSystemMem)
    IN
    IF allocStatus # MOS_STATUS_SUCCESS
    THEN BbOut(allocStatus, bbs, devs,
               <<[fn |-> "AllocateResource", status |-> allocStatus, request |-> request]>>)
    ELSE
    LET devs1 == [devs EXCEPT ![id] = [state |-> "allocated", locked |-> FALSE]]
        b1 == [bbs[id] EXCEPT !.OsResource = id,
                              !.iSize      = ToInt32(padded),
                              !.count      = batchCount,
                              !.iRemaining = ToInt32(padded),
                              !.iCurrent   = 0,
                              !.bLocked    = FALSE,
                              !.bBusy      = FALSE,
                              !.dwCmdBufId = 0]
        bbs1 == [bbs EXCEPT ![id] = b1]
        \* the list head is a by-value parameter: only the objects are linked
        bbs2 == IF pBatchBufferList # NullBb
                THEN [bbs1 EXCEPT ![id].pNext = pBatchBufferList,
                                  ![pBatchBufferList].pPrev = id]
                ELSE bbs1
    IN BbOut(MOS_STATUS_SUCCESS, bbs2, devs1,
             <<[fn |-> "AllocateResource", status |-> allocStatus, request |-> request],
               Ok("ResetResourceAllocationIndex")>>)

\* a lock that does not look at bLocked
Mhw_LockBb_NoStateCheck(bbs, devs, id, pData) ==
    LET bbs1  == [bbs EXCEPT ![id].pData = pData]
    IN IF pData = Null
       THEN BbOut(MOS_STATUS_NULL_POINTER, bbs1, devs,
                  <<Ev("LockResource", MOS_STATUS_NULL_POINTER)>>)
       ELSE BbOut(MOS_STATUS_SUCCESS,
                  [bbs1 EXCEPT ![id].bLocked = TRUE],
                  [devs EXCEPT ![id].locked = TRUE],
                  <<Ok("LockResource")>>)

Mhw_LockBb(bbs, devs, id, pData) ==
    IF bbs[id].bLocked
    THEN BbOut(MOS_STATUS_UNKNOWN, bbs, devs, <<>>)
    ELSE
    LET bbs1  == [bbs EXCEPT ![id].pData = pData]
    IN IF pData = Null
       THEN BbOut(MOS_STATUS_NULL_POINTER, bbs1, devs,
                  <<Ev("LockResource", MOS_STATUS_NULL_POINTER)>>)
       ELSE BbOut(MOS_STATUS_SUCCESS,
                  [bbs1 EXCEPT ![id].bLocked = TRUE],
                  [devs EXCEPT ![id].locked = TRUE],
                  <<Ok("LockResource")>>)

\* a reset that restores the remaining size but leaves the cursor
ResetBb_KeepsCursor(b) == [b EXCEPT !.iRemaining = b.iSize]

\* the bookkeeping reset of Mhw_UnlockBb
ResetBb(b) == [b EXCEPT !.iRemaining = b.iSize, !.iCurrent = 0]

\* an unlock that marks the buffer unlocked before it asks the device layer
Mhw_UnlockBb_MarksFirst(bbs, devs, id, bResetBuffer, unlockStatus) ==
    IF ~bbs[id].bLocked
    THEN BbOut(MOS_STATUS_UNKNOWN, bbs, devs, <<>>)
    ELSE
    LET bbs1 == [bbs EXCEPT ![id].bLocked = FALSE, ![id].pData = Null]
    IN IF unlockStatus # MOS_STATUS_SUCCESS
       THEN BbOut(unlockStatus, bbs1, devs, <<Ev("UnlockResource", unlockStatus)>>)
       ELSE BbOut(MOS_STATUS_SUCCESS, bbs1, [devs EXCEPT ![id].locked = FALSE],
                  <<Ok("UnlockResource")>>)

Mhw_UnlockBb(bbs, devs, id, bResetBuffer, unlockStatus) ==
    IF ~bbs[id].bLocked
    THEN BbOut(MOS_STATUS_UNKNOWN, bbs, devs, <<>>)
    ELSE
    LET bbs1 == IF bResetBuffer THEN [bbs EXCEPT ![id] = ResetBb(bbs[id])] ELSE bbs
    IN IF unlockStatus # MOS_STATUS_SUCCESS
       THEN BbOut(unlockStatus, bbs1, devs, <<Ev("UnlockResource", unlockStatus)>>)
       ELSE BbOut(MOS_STATUS_SUCCESS,
                  [bbs1 EXCEPT ![id].bLocked = FALSE, ![id].pData = Null],
                  [devs EXCEPT ![id].locked = FALSE],
                  <<Ok("UnlockResource")>>)

\* the unlinking of Mhw_FreeBb; the list head is a by-value parameter
UnlinkBb(bbs, id) ==
    LET n == bbs[id].pNext
        q == bbs[id].pPrev
        s1 == IF n # NullBb THEN [bbs EXCEPT ![n].pPrev = q] ELSE bbs
        s2 == IF q # NullBb THEN [s1 EXCEPT ![q].pNext = n] ELSE s1
    IN [s2 EXCEPT ![id].pPrev = NullBb, ![id].pNext = NullBb]

\* the bookkeeping Mhw_FreeBb zeroes
ZeroBb(b) == [b EXCEPT !.dwCmdBufId = 0, !.iSize = 0, !.count = 0, !.iCurrent = 0]

Mhw_FreeBb(bbs, devs, id, pBatchBufferList, unlockStatus) ==
    LET u == IF bbs[id].bLocked
             THEN Mhw_UnlockBb(bbs, devs, id, TRUE, unlockStatus)
             ELSE BbOut(MOS_STATUS_SUCCESS, bbs, devs, <<>>)
    IN
    IF u.status # MOS_STATUS_SUCCESS
    THEN u
    ELSE
    LET devs1 == [u.dev EXCEPT ![id].state = "freed"]
        bbs1  == [u.bb EXCEPT ![id] = ZeroBb(u.bb[id])]
        bbs2  == IF pBatchBufferList # NullBb THEN UnlinkBb(bbs1, id) ELSE bbs1
    IN BbOut(MOS_STATUS_SUCCESS, bbs2, devs1, u.log \o <<Ok("FreeResource")>>)

-----------------------------------------------------------------------------
(* Mhw_SendGenericPrologCmdNext *)

\* the GPU contexts that get a watchdog timer start
WatchdogContexts ==
    {"MOS_GPU_CONTEXT_RENDER", "MOS_GPU_CONTEXT_RENDER2", "MOS_GPU_CONTEXT_RENDER3",
     "MOS_GPU_CONTEXT_RENDER4", "MOS_GPU_CONTEXT_VIDEO", "MOS_GPU_CONTEXT_VIDEO2",
     "MOS_GPU_CONTEXT_VIDEO3", "MOS_GPU_CONTEXT_VIDEO4", "MOS_GPU_CONTEXT_VDBOX2_VIDEO",
     "MOS_GPU_CONTEXT_VDBOX2_VIDEO2", "MOS_GPU_CONTEXT_VDBOX2_VIDEO3",
     "MOS_GPU_CONTEXT_VEBOX", "MOS_GPU_CONTEXT_VIDEO5", "MOS_GPU_CONTEXT_VIDEO6",
     "MOS_GPU_CONTEXT_VIDEO7"}

\* bRcsEngineUsed = MOS_RCS_ENGINE_USED(GpuContext): the macro is defined by the
\* OS layer, so its answer for a context is one of the call's inputs
MOS_RCS_ENGINE_USED(p) == p.bRcsEngineUsed

\* a numeric field of a parameter block that "par = {}" has reset and nothing
\* has set; a reset dwFlushMode reads MHW_FLUSH_NONE, a reset dwPostSyncOp
\* MHW_FLUSH_NOWRITE
ResetField == 0

\* one step of the prologue: a command added through the MI interface ("cmd",
\* which can fail), a device-layer call ("dev") or the OCA hook ("hook")
Step(kind, fn, par) == [kind |-> kind, fn |-> fn, par |-> par, status |-> MOS_STATUS_SUCCESS]

SyncByBatchBuffer(p) == p.isGpuSyncByCmd /\ p.syncMhwBatchBuffer # Null

SyncSteps(p) ==
    IF SyncByBatchBuffer(p)
    THEN <<Step("dev", "GetResourceGfxAddress", [resource |-> "pCmdBuffer->OsResource"]),
           Step("dev", "OnNativeFenceSyncBBAdded", [gfxAddr |-> p.gfxAddr]),
           Step("cmd", "MI_BATCH_BUFFER_START", [batchBuffer |-> p.syncMhwBatchBuffer])>>
    ELSE <<>>

\* a watchdog timer start for the media components and for CM alike
WatchdogSteps_EveryComponent(p) ==
    IF p.GpuContext \in WatchdogContexts
    THEN <<Step("cmd", "AddWatchdogTimerStartCmd", [none |-> TRUE])>>
    ELSE <<>>

WatchdogSteps(p) ==
    IF p.Component # "COMPONENT_CM" /\ p.GpuContext \in WatchdogContexts
    THEN <<Step("cmd", "AddWatchdogTimerStartCmd", [none |-> TRUE])>>
    ELSE <<>>

PipeControlParams ==
    [dwFlushMode |-> "MHW_FLUSH_NONE", presDest |-> Null, dwResourceOffset |-> ResetField,
     dwPostSyncOp |-> "MHW_FLUSH_NOWRITE", dwDataDW1 |-> ResetField]

WriteCacheFlush == [PipeControlParams EXCEPT !.dwFlushMode = "MHW_FLUSH_WRITE_CACHE"]

ReadCacheFlush(p) ==
    [PipeControlParams EXCEPT !.dwFlushMode = "MHW_FLUSH_READ_CACHE",
                              !.presDest = p.presStoreData,
                              !.dwResourceOffset = p.dwStoreDataOffset,
                              !.dwPostSyncOp = "MHW_FLUSH_WRITE_IMMEDIATE_DATA"]

PwrClkState(p) ==
    [dwRegister |-> "MHW__PWR_CLK_STATE_REG",
     dwData |-> [PowerClkStateEn |-> TRUE, SCountEn |-> TRUE, SSCountEn |-> TRUE,
                 SliceCount |-> p.dwNumRequestedEUSlices,
                 SubSliceCount |-> p.dwNumRequestedSubSlices,
                 EUmax |-> p.dwNumRequestedEUs, EUmin |-> p.dwNumRequestedEUs]]

\* the render branch with its two flushes in the other order
RenderSteps_MarkerFirst(p) ==
    <<Step("cmd", "PIPE_CONTROL", ReadCacheFlush(p)),
      Step("cmd", "PIPE_CONTROL", WriteCacheFlush)>>
    \o (IF p.bUmdSSEUEnable
        THEN <<Step("cmd", "MI_LOAD_REGISTER_IMM", PwrClkState(p))>> ELSE <<>>)

RenderSteps(p) ==
    <<Step("cmd", "PIPE_CONTROL", WriteCacheFlush),
      Step("cmd", "PIPE_CONTROL", ReadCacheFlush(p))>>
    \o (IF p.bUmdSSEUEnable
        THEN <<Step("cmd", "MI_LOAD_REGISTER_IMM", PwrClkState(p))>> ELSE <<>>)

FlushDwParams(p) ==
    [bVideoPipelineCacheInvalidate |-> TRUE, pOsResource |-> p.presStoreData,
     dwResourceOffset |-> p.dwStoreDataOffset, dwDataDW1 |-> p.dwStoreDataValue]

VideoSteps(p) == <<Step("cmd", "MI_FLUSH_DW", FlushDwParams(p))>>

OcaSteps(p) ==
    IF p.pMmioReg # Null
    THEN <<Step("hook", "On1stLevelBBStart", [mmio |-> p.pMmioReg])>>
    ELSE <<>>

\* every step of a prologue in which no command fails
PrologSteps(p) ==
    SyncSteps(p) \o WatchdogSteps(p)
      \o (IF MOS_RCS_ENGINE_USED(p) THEN RenderSteps(p) ELSE VideoSteps(p))
      \o <<Step("cmd", "AddProtectedProlog", [none |-> TRUE])>>
      \o OcaSteps(p)

\* the number of commands among the first n steps
RECURSIVE CmdCount(_, _)
CmdCount(steps, n) ==
    IF n = 0 THEN 0
    ELSE CmdCount(steps, n - 1) + (IF steps[n].kind = "cmd" THEN 1 ELSE 0)

\* a prologue that notes the failing command's status and goes on
StepsUntilFailure_GoesOn(steps, failAt, st) ==
    LET fails(n) == steps[n].kind = "cmd" /\ CmdCount(steps, n) = failAt
    IN IF failAt = 0 \/ ~(\E n \in 1..Len(steps) : fails(n))
       THEN [status |-> MOS_STATUS_SUCCESS, log |-> steps]
       ELSE [status |-> st,
             log |-> [k \in 1..Len(steps) |->
                         IF fails(k) THEN [steps[k] EXCEPT !.status = st] ELSE steps[k]]]

\* the steps made when the failAt-th command fails with status st (failAt = 0, or
\* larger than the number of commands: none fails): MHW_CHK_STATUS_RETURN stops
\* the prologue at the failing command
StepsUntilFailure(steps, failAt, st) ==
    LET failing == {n \in 1..Len(steps) :
                       steps[n].kind = "cmd" /\ CmdCount(steps, n) = failAt}
    IN IF failAt = 0 \/ failing = {}
       THEN [status |-> MOS_STATUS_SUCCESS, log |-> steps]
       ELSE LET n == CHOOSE k \in failing : TRUE
            IN [status |-> st,
                log |-> [k \in 1..n |-> IF k = n THEN [steps[k] EXCEPT !.status = st]
                                        ELSE steps[k]]]

Mhw_SendGenericPrologCmdNext(p) ==
    IF p.nullArg # "none"
    THEN [status |-> MOS_STATUS_NULL_POINTER, log |-> <<>>]
    ELSE StepsUntilFailure(PrologSteps(p), p.failAt, p.failStatus)

-----------------------------------------------------------------------------
(* Polyphase coefficient tables *)

NUM_POLYPHASE_TABLES == 32
NUM_HW_POLYPHASE_TABLES == 17
MHW_NUM_HW_POLYPHASE_TABLES == 32
NUM_POLYPHASE_Y_ENTRIES == 8
NUM_POLYPHASE_UV_ENTRIES == 4
MHW_AVS_TBL_COEF_PREC == 6
MHW_TABLE_PHASE_COUNT == 32
MHW_SCALER_UV_WIN_SIZE == 4
MHW_TBL_COEF_PREC == 6

\* sum of f[0] .. f[n - 1]
RECURSIVE SumTo(_, _)
SumTo(f, n) == IF n = 0 THEN 0 ELSE f[n - 1] + SumTo(f, n - 1)

\* The kernel value of tap j in phase i (MosLanczos / MosLanczosG of the tap's
\* position), as an integer number of kernel units: a peak at the center tap
\* falling off on both sides, shifted with the phase.
KernelValue(k, i, j, center) ==
    k.peak - k.slope * (IF j < center THEN center - j ELSE j - center)
           + k.skew * ((i + j) % 2)

\* fPhaseCoefsCopy of phase i, window of n taps
KernelRow(k, i, n) == [j \in 0..(n - 1) |-> KernelValue(k, i, j, n \div 2 - 1)]

\* fHPFilter of phase i: hp.strength stands for fHPStrength; MosSinc(fHPHalfPhase
\* * MOS_PI) is an integer that depends on the half phase, which rises up to
\* the middle phase and falls after it
HPFilter(hp, i) ==
    LET halfPhase == IF i <= NUM_POLYPHASE_TABLES \div 2 THEN i
                     ELSE NUM_POLYPHASE_TABLES - i
        sinc      == hp.sinc * (1 + (halfPhase % 3))
    IN [x \in 0..2 |-> IF x = 1 THEN 1 + 2 * hp.strength ELSE 0 - hp.strength * sinc]

\* a convolution that keeps the last product instead of the accumulator
HPSum_LastProduct(copy, filter, j, last, n) ==
    IF j + last >= 0 /\ j + last < n THEN copy[j + last] * filter[last + 1] ELSE 0

\* fHPSum after the iterations k = -1 .. last of the loop over k for tap j
RECURSIVE HPSum(_, _, _, _, _)
HPSum(copy, filter, j, last, n) ==
    IF last < 0 - 1 THEN 0
    ELSE HPSum(copy, filter, j, last - 1, n)
           + (IF j + last >= 0 /\ j + last < n THEN copy[j + last] * filter[last + 1] ELSE 0)

\* fPhaseCoefs after the convolution: the assignment inside the loop over k last
\* runs with k = 1
HPConvolve(copy, filter, n) == [j \in 0..(n - 1) |-> HPSum(copy, filter, j, 1, n)]

\* (int32_t)floor(0.5 + unit * coef / sum), for sum > 0
Quantize(coef, sum, unit) == (2 * unit * coef + sum) \div (2 * sum)

QuantizeRow(coefs, sum, unit, n) == [j \in 0..(n - 1) |-> Quantize(coefs[j], sum, unit)]

\* a correction that leaves the row as quantized
CorrectedRow_Unbalanced(row, tap, unit, n) == row

\* iCoefs[tap] -= iSumQuantCoefs - tableCoefUnit
CorrectedRow(row, tap, unit, n) == [row EXCEPT ![tap] = @ - (SumTo(row, n) - unit)]

IsLumaPlane(dwPlane) == dwPlane \in {"MHW_GENERIC_PLANE", "MHW_Y_PLANE"}

NumEntriesY(dwPlane) ==
    IF IsLumaPlane(dwPlane) THEN NUM_POLYPHASE_Y_ENTRIES ELSE NUM_POLYPHASE_UV_ENTRIES

\* the quantized row of phase i in Mhw_CalcPolyphaseTablesY, before the fix
QuantRowY(p, i) ==
    LET n    == NumEntriesY(p.dwPlane)
        copy == KernelRow(p.kernel, i, n)
        sum  == SumTo(copy, n)
        coef == IF IsLumaPlane(p.dwPlane) THEN HPConvolve(copy, HPFilter(p.hp, i), n) ELSE copy
    IN QuantizeRow(coef, sum, 2^MHW_AVS_TBL_COEF_PREC, n)

FixTapY(p, i) ==
    LET iCenterPixel == NumEntriesY(p.dwPlane) \div 2 - 1
    IN IF i <= NUM_POLYPHASE_TABLES \div 2 THEN iCenterPixel ELSE iCenterPixel + 1

RowY(p, i) ==
    CorrectedRow(QuantRowY(p, i), FixTapY(p, i), 2^MHW_AVS_TBL_COEF_PREC,
                 NumEntriesY(p.dwPlane))

\* the table after the call: the rows of the phases, one after the other, and
\* whatever the caller's array held behind them
FilledTable(old, rows, phases, n) ==
    [x \in DOMAIN old |-> IF x < phases * n THEN rows[x \div n][x % n] ELSE old[x]]

Mhw_CalcPolyphaseTablesY(p) ==
    IF p.piCoefsNull
    THEN [status |-> MOS_STATUS_NULL_POINTER, iCoefs |-> p.iCoefs]
    ELSE [status |-> MOS_STATUS_SUCCESS,
          iCoefs |-> FilledTable(p.iCoefs, [i \in 0..(p.dwHwPhase - 1) |-> RowY(p, i)],
                                 p.dwHwPhase, NumEntriesY(p.dwPlane))]

\* the quantized row of phase i in the chroma calculators, before the fix
QuantRowUV(p, i) ==
    LET copy == KernelRow(p.kernel, i, MHW_SCALER_UV_WIN_SIZE)
    IN QuantizeRow(copy, SumTo(copy, MHW_SCALER_UV_WIN_SIZE), 2^MHW_TBL_COEF_PREC,
                   MHW_SCALER_UV_WIN_SIZE)

FixTapUV(adjustedPhase) ==
    LET centerPixel == MHW_SCALER_UV_WIN_SIZE \div 2 - 1
    IN IF adjustedPhase <= MHW_TABLE_PHASE_COUNT \div 2 THEN centerPixel ELSE centerPixel + 1

RowUV(p, i, adjustedPhase) ==
    CorrectedRow(QuantRowUV(p, i), FixTapUV(adjustedPhase), 2^MHW_TBL_COEF_PREC,
                 MHW_SCALER_UV_WIN_SIZE)

Mhw_CalcPolyphaseTablesUV(p) ==
    IF p.piCoefsNull
    THEN [status |-> MOS_STATUS_NULL_POINTER, iCoefs |-> p.iCoefs]
    ELSE [status |-> MOS_STATUS_SUCCESS,
          iCoefs |-> FilledTable(p.iCoefs,
                                 [i \in 0..(MHW_TABLE_PHASE_COUNT - 1) |-> RowUV(p, i, i)],
                                 MHW_TABLE_PHASE_COUNT, MHW_SCALER_UV_WIN_SIZE)]

Mhw_CalcPolyphaseTablesUVOffset(p) ==
    IF p.piCoefsNull
    THEN [status |-> MOS_STATUS_NULL_POINTER, iCoefs |-> p.iCoefs]
    ELSE [status |-> MOS_STATUS_SUCCESS,
          iCoefs |-> FilledTable(p.iCoefs,
                                 [i \in 0..(MHW_TABLE_PHASE_COUNT - 1) |->
                                     RowUV(p, i, i - p.iUvPhaseOffset)],
                                 MHW_TABLE_PHASE_COUNT, MHW_SCALER_UV_WIN_SIZE)]

-----------------------------------------------------------------------------
(* Bounds and input sets *)

\* number of patching / resolver calls in one behaviour
MaxCalls == 1
\* largest bitFieldLow / bitFieldHigh tried (uint8_t; 32 and above are invalid)
MaxBitField == 33
\* number of batch buffer objects
NumBb == 1
\* number of batch buffer objects a caller keeps in one list
NumListBb == 3

CmdLen == 2 * MaxCalls + 4
CmdIdx == 0..(CmdLen - 1)
BbIds  == 1..NumBb

\* DWORD contents tried for the command buffer
Alt32 == {i \in B32 : i % 2 = 0}
DwordPatterns == {Zero, Ones32, Alt32}

\* cache-control DWORDs tried: index 0x3F, index 0 with every other bit set,
\* index 0x15
CtrlValues == {BitRange(1, 6), Ones32 \ BitRange(1, 6), {1, 3, 5}}

\* graphics addresses tried: 0 (the query failed), 0x1_0000_1000,
\* 0x0_FFFF_F000 (an offset carries into the high DWORD), 0xFFFF_8000_0000_0040
GfxAddresses == {Zero, {12, 32}, BitRange(12, 31), BitRange(47, 63) \cup {6}}

\* offsets and sizes tried: 0, 1, 0x1000, 0xFFFF_F001
Offsets == {Zero, {0}, {12}, BitRange(12, 31) \cup {0}}

TheCmdBuffer == [pCmdBase |-> "pCmdBase", iOffset |-> 64]
TheOsInterface == "pOsInterface"

NoMocs      == [mocsTableIndex |-> NullDw, bitFieldLow |-> 0, bitFieldHigh |-> 0]
ValidMocs   == [mocsTableIndex |-> 0, bitFieldLow |-> 1, bitFieldHigh |-> 6]
InvalidMocs == [mocsTableIndex |-> 0, bitFieldLow |-> 5, bitFieldHigh |-> 2]

DefaultParams ==
    [presResource |-> "presResource", dwOffset |-> Zero, dwSize |-> {8},
     dwLsbNum |-> 0, pdwCmd |-> 0, dwLocationInCmd |-> 1,
     dwUpperBoundLocationOffsetFromCmd |-> 0, bIsWritable |-> TRUE,
     HwCommandType |-> "MOS_MFX_PIPE_BUF_ADDR",
     patchType |-> "MOS_PATCH_TYPE_BASE_ADDRESS",
     dwOffsetInSSH |-> 0, dwSharedMocsOffset |-> 0,
     shiftAmount |-> 0, shiftDirection |-> 0, mocsParams |-> NoMocs]

\* an address field takes two DWORDs, so an upper-bound field lies at least two
\* DWORDs after the address field
UpperBoundOffsets == {0, 2}

\* the numeric sweep: every dwLsbNum with every offset
NumericParams ==
    {[DefaultParams EXCEPT !.dwLsbNum = n, !.dwOffset = o, !.dwSize = o,
                           !.dwUpperBoundLocationOffsetFromCmd = u] :
        n \in 0..31, o \in Offsets, u \in UpperBoundOffsets}

\* the control sweep: every combination of the flags and classifications
ControlParams ==
    {[DefaultParams EXCEPT !.presResource = r, !.dwLsbNum = n, !.dwOffset = {12},
                           !.dwUpperBoundLocationOffsetFromCmd = u,
                           !.bIsWritable = w, !.HwCommandType = h, !.patchType = t,
                           !.dwOffsetInSSH = ssh, !.mocsParams = m] :
        r \in {Null, "presResource"}, n \in {0, 12}, u \in UpperBoundOffsets,
        w \in BOOLEAN, h \in {"MOS_MFX_PIPE_BUF_ADDR", "MOS_PIPE_CONTROL"},
        t \in {"MOS_PATCH_TYPE_BASE_ADDRESS", "MOS_PATCH_TYPE_PITCH"},
        ssh \in {0, 256}, m \in {NoMocs, ValidMocs, InvalidMocs}}

NoCall == [op |-> "none"]

\* the prologue and polyphase variables of a behaviour that uses neither
PrologIdle == prolog = [GpuContext |-> "none"] /\ stream = <<>>
PolyIdle == poly = [fn |-> "none"]

\* the batch buffer variables of a behaviour that uses no batch buffer
BbIdle ==
    /\ bb = [i \in BbIds |-> EmptyBb]
    /\ dev = [i \in BbIds |-> NoResource]
    /\ listHead = NullBb

-----------------------------------------------------------------------------
(* The MOCS resolver on its own *)

InitMocs ==
    /\ \E lo \in 0..MaxBitField, hi \in 0..MaxBitField, d \in {NullDw, 0},
          r \in {Null, "presResource"} :
          params = [DefaultParams EXCEPT
                       !.presResource = r,
                       !.mocsParams = [mocsTableIndex |-> d, bitFieldLow |-> lo,
                                       bitFieldHigh |-> hi]]
    /\ \E w \in DwordPatterns : cmd = [i \in CmdIdx |-> w]
    /\ \E c \in CtrlValues : osResource = [gfx |-> {12, 32}, ctrl |-> c, idx |-> 3]
    /\ patchList = <<>>
    /\ call = NoCall
    /\ nOps = 0
    /\ BbIdle
    /\ PrologIdle
    /\ PolyIdle

SetMocsTableIndexCall ==
    /\ nOps < MaxCalls
    /\ LET r == Mhw_SetMocsTableIndex(TheOsInterface, params.presResource,
                                      params.mocsParams, cmd, osResource.ctrl)
       IN /\ cmd' = r.mem
          /\ call' = [op |-> "Mhw_SetMocsTableIndex", status |-> r.status,
                      asked |-> r.asked, pre |-> [cmd |-> cmd]]
    /\ nOps' = nOps + 1
    /\ UNCHANGED <<params, patchList, osResource, bb, dev, listHead, prolog, stream, poly>>

NextMocs == SetMocsTableIndexCall

SpecMocs == InitMocs /\ [][NextMocs]_vars

-----------------------------------------------------------------------------
(* Address patching *)

InitPatch ==
    /\ \/ /\ params \in NumericParams
          /\ \E w \in {Zero, Ones32} : cmd = [i \in CmdIdx |-> w]
          /\ \E g \in GfxAddresses :
                osResource = [gfx |-> g, ctrl |-> BitRange(1, 6), idx |-> 3]
       \/ /\ params \in ControlParams
          /\ cmd = [i \in CmdIdx |-> Alt32]
          /\ \E g \in {Zero, {12, 32}} :
                osResource = [gfx |-> g, ctrl |-> {1, 3, 5}, idx |-> 3]
    /\ patchList = <<>>
    /\ call = NoCall
    /\ nOps = 0
    /\ BbIdle
    /\ PrologIdle
    /\ PolyIdle

\* the device layer's answers to one patching call
DeviceAnswers(reg, patch1, patch2) ==
    [reg |-> reg, gfx |-> osResource.gfx, ctrl |-> osResource.ctrl, idx |-> osResource.idx,
     patch1 |-> patch1, patch2 |-> patch2]

PatchCallDone(op, r) ==
    /\ params' = r.params
    /\ cmd' = r.mem
    /\ patchList' = r.patchList
    /\ call' = [op |-> op, status |-> r.status, log |-> r.log,
                pre |-> [params |-> params, cmd |-> cmd, patchList |-> patchList]]
    /\ nOps' = nOps + 1
    /\ UNCHANGED <<osResource, bb, dev, listHead, prolog, stream, poly>>

AddResourceToCmd_GfxAddressCall ==
    /\ nOps < MaxCalls
    /\ \E reg \in DevStatuses, patch1 \in DevStatuses, patch2 \in DevStatuses :
          PatchCallDone("Mhw_AddResourceToCmd_GfxAddress",
              Mhw_AddResourceToCmd_GfxAddress(TheOsInterface, TheCmdBuffer, params,
                  cmd, patchList, DeviceAnswers(reg, patch1, patch2)))

AddResourceToCmd_PatchListCall ==
    /\ nOps < MaxCalls
    /\ \E reg \in DevStatuses, patch1 \in DevStatuses, patch2 \in DevStatuses :
          PatchCallDone("Mhw_AddResourceToCmd_PatchList",
              Mhw_AddResourceToCmd_PatchList(TheOsInterface, TheCmdBuffer, params,
                  cmd, patchList, DeviceAnswers(reg, patch1, patch2)))

NextPatch == AddResourceToCmd_GfxAddressCall \/ AddResourceToCmd_PatchListCall

SpecPatch == InitPatch /\ [][NextPatch]_vars

-----------------------------------------------------------------------------
(* Batch buffer lifecycle *)

\* payload sizes tried: 100 bytes (one page after padding), one page (two) and
\* 0x7FFFF000 (2^31 after padding, which two slots wrap to 0)
BbSizes == {FromNat(100), FromNat(MOS_PAGE_SIZE), BitRange(12, 30)}
\* slot counts tried
BbCounts == {1, 2}
\* bytes a caller writes into a locked batch buffer at a time
WriteChunk == MOS_PAGE_SIZE

InitBb ==
    /\ BbIdle
    /\ call = NoCall
    /\ params = DefaultParams
    /\ cmd = [i \in CmdIdx |-> Zero]
    /\ osResource = [gfx |-> {12, 32}, ctrl |-> Zero, idx |-> 0]
    /\ patchList = <<>>
    /\ nOps = 0
    /\ PrologIdle
    /\ PolyIdle

BbCallDone(op, id, arg, r) ==
    /\ bb' = r.bb
    /\ dev' = r.dev
    /\ call' = [op |-> op, id |-> id, arg |-> arg, status |-> r.status, log |-> r.log,
                pre |-> [bb |-> bb[id], dev |-> dev[id]]]
    \* the list head reaches the operations by value: the caller's own stays
    /\ UNCHANGED <<listHead, params, cmd, patchList, osResource, prolog, stream, poly, nOps>>

\* the list heads a caller may pass: none, or the first buffer of a list
ListHeads(id) ==
    {NullBb} \cup {j \in BbIds \ {id} : dev[j].state = "allocated" /\ bb[j].pPrev = NullBb}

\* a batch buffer object is allocated once
AllocateBbCall ==
    \E id \in BbIds, dwSize \in BbSizes, batchCount \in BbCounts,
       notLockable \in BOOLEAN, inSystemMem \in BOOLEAN, allocStatus \in DevStatuses :
        /\ dev[id].state = "none"
        /\ \E list \in ListHeads(id) :
              BbCallDone("Mhw_AllocateBb", id,
                  [list |-> list, dwSize |-> dwSize, batchCount |-> batchCount,
                   notLockable |-> notLockable, inSystemMem |-> inSystemMem],
                  Mhw_AllocateBb(bb, dev, id, list, dwSize, batchCount,
                                 notLockable, inSystemMem, allocStatus))

LockBbCall ==
    \E id \in BbIds, pData \in {Null, "pData"} :
        /\ dev[id].state # "none"
        /\ BbCallDone("Mhw_LockBb", id, [pData |-> pData],
                      Mhw_LockBb(bb, dev, id, pData))

UnlockBbCall ==
    \E id \in BbIds, bResetBuffer \in BOOLEAN, unlockStatus \in DevStatuses :
        /\ dev[id].state # "none"
        /\ BbCallDone("Mhw_UnlockBb", id,
                      [bResetBuffer |-> bResetBuffer, unlockStatus |-> unlockStatus],
                      Mhw_UnlockBb(bb, dev, id, bResetBuffer, unlockStatus))

FreeBbCall ==
    \E id \in BbIds, unlockStatus \in DevStatuses :
        /\ dev[id].state # "none"
        /\ \E list \in ListHeads(id) \cup {id} :
              BbCallDone("Mhw_FreeBb", id, [list |-> list, unlockStatus |-> unlockStatus],
                         Mhw_FreeBb(bb, dev, id, list, unlockStatus))

\* a caller appends WriteChunk bytes of commands to a locked batch buffer
WriteBb ==
    \E id \in BbIds :
        /\ dev[id].state = "allocated"
        /\ bb[id].bLocked
        /\ bb[id].iRemaining >= WriteChunk
        /\ bb' = [bb EXCEPT ![id].iCurrent = @ + WriteChunk,
                            ![id].iRemaining = @ - WriteChunk]
        /\ call' = [op |-> "write", id |-> id]
        /\ UNCHANGED <<dev, listHead, params, cmd, patchList, osResource, prolog, stream, poly,
                       nOps>>

NextBb == AllocateBbCall \/ LockBbCall \/ UnlockBbCall \/ FreeBbCall \/ WriteBb

SpecBb == InitBb /\ [][NextBb]_vars

-----------------------------------------------------------------------------
(* One caller keeping its batch buffers in one list *)

ListIds == 1..NumListBb

\* Either the caller's list is empty, or it holds one buffer the caller
\* allocated on its own (no list passed) and made the head.
InitList ==
    /\ \/ /\ listHead = NullBb
          /\ bb = [i \in ListIds |-> EmptyBb]
          /\ dev = [i \in ListIds |-> NoResource]
       \/ /\ listHead = 1
          /\ LET r == Mhw_AllocateBb([i \in ListIds |-> EmptyBb],
                                     [i \in ListIds |-> NoResource],
                                     1, NullBb, FromNat(100), 1, FALSE, FALSE,
                                     MOS_STATUS_SUCCESS)
             IN bb = r.bb /\ dev = r.dev
    /\ call = NoCall
    /\ params = DefaultParams
    /\ cmd = [i \in CmdIdx |-> Zero]
    /\ osResource = [gfx |-> {12, 32}, ctrl |-> Zero, idx |-> 0]
    /\ patchList = <<>>
    /\ nOps = 0
    /\ PrologIdle
    /\ PolyIdle

\* the caller allocates a buffer against its list head
ListAllocateBbCall ==
    \E id \in ListIds, allocStatus \in DevStatuses :
        /\ dev[id].state = "none"
        /\ BbCallDone("Mhw_AllocateBb", id,
                [list |-> listHead, dwSize |-> FromNat(100), batchCount |-> 1,
                 notLockable |-> FALSE, inSystemMem |-> FALSE],
                Mhw_AllocateBb(bb, dev, id, listHead, FromNat(100), 1,
                               FALSE, FALSE, allocStatus))

ListLockBbCall ==
    \E id \in ListIds :
        /\ dev[id].state = "allocated"
        /\ BbCallDone("Mhw_LockBb", id, [pData |-> "pData"],
                      Mhw_LockBb(bb, dev, id, "pData"))

\* the caller frees a buffer of its list, passing its list head
ListFreeBbCall ==
    \E id \in ListIds, unlockStatus \in DevStatuses :
        /\ dev[id].state = "allocated"
        /\ BbCallDone("Mhw_FreeBb", id, [list |-> listHead, unlockStatus |-> unlockStatus],
                      Mhw_FreeBb(bb, dev, id, listHead, unlockStatus))

NextList == ListAllocateBbCall \/ ListLockBbCall \/ ListFreeBbCall

SpecList == InitList /\ [][NextList]_vars

-----------------------------------------------------------------------------
(* The prologue *)

\* what a prologue call is made with and what the device layer answers:
\* nullArg names the pointer that is null (pCmdBuffer, pParams,
\* pParams->pOsInterface, pMiItf, the SKU table or the WA table), failAt the
\* command of the call that the MI interface fails to add (0: none)
PrologInputs ==
    [nullArg : {"none", "pCmdBuffer", "pParams", "pOsInterface", "pMiItf",
                "pSkuTable", "pWaTable"},
     Component : {"COMPONENT_CM", "COMPONENT_VPCommon"},
     GpuContext : {"MOS_GPU_CONTEXT_RENDER", "MOS_GPU_CONTEXT_VIDEO",
                   "MOS_GPU_CONTEXT_VEBOX", "MOS_GPU_CONTEXT_COMPUTE"},
     bRcsEngineUsed : BOOLEAN,
     isGpuSyncByCmd : BOOLEAN,
     syncMhwBatchBuffer : {Null, "syncMhwBatchBuffer"},
     gfxAddr : {{12, 32}},
     bUmdSSEUEnable : BOOLEAN,
     dwNumRequestedEUSlices : {1}, dwNumRequestedSubSlices : {3},
     dwNumRequestedEUs : {8},
     presStoreData : {"presStoreData"},
     dwStoreDataOffset : {16},
     dwStoreDataValue : {0, 5},
     pMmioReg : {Null, "pMmioReg"},
     failAt : 0..6,
     failStatus : DevFailures]

InitProlog ==
    /\ prolog \in PrologInputs
    /\ stream = <<>>
    /\ call = NoCall
    /\ params = DefaultParams
    /\ cmd = [i \in CmdIdx |-> Zero]
    /\ osResource = [gfx |-> {12, 32}, ctrl |-> Zero, idx |-> 0]
    /\ patchList = <<>>
    /\ nOps = 0
    /\ BbIdle
    /\ PolyIdle

SendGenericPrologCall ==
    /\ nOps < MaxCalls
    /\ LET r == Mhw_SendGenericPrologCmdNext(prolog)
       IN /\ stream' = stream \o SelectSeq(r.log, LAMBDA e : e.kind = "cmd"
                                                       /\ e.status = MOS_STATUS_SUCCESS)
          /\ call' = [op |-> "Mhw_SendGenericPrologCmdNext", status |-> r.status,
                      log |-> r.log, pre |-> [stream |-> stream]]
    /\ nOps' = nOps + 1
    /\ UNCHANGED <<prolog, params, cmd, patchList, osResource, bb, dev, listHead, poly>>

NextProlog == SendGenericPrologCall

SpecProlog == InitProlog /\ [][NextProlog]_vars

-----------------------------------------------------------------------------
(* The polyphase calculators *)

\* The calls tried. Kernels: flat and peaked, with and without a ripple that
\* depends on the phase; high-pass filters: off, and on with sinc 0 and 1; the
\* caller's array holds 7 everywhere before the call (piCoefsNull: the caller
\* passed a null pointer instead).
PolyInputs ==
    LET Kernels   == [peak : {10, 37}, slope : {0, 3}, skew : {0 - 2, 0, 1}]
        HPFilters == {[strength |-> 0, sinc |-> 0], [strength |-> 1, sinc |-> 0],
                      [strength |-> 1, sinc |-> 1]}
        TableOf(size) == [x \in 0..(size - 1) |-> 7]
    IN {[fn |-> "Mhw_CalcPolyphaseTablesY", dwPlane |-> pl, dwHwPhase |-> ph, kernel |-> k,
         hp |-> hp, iUvPhaseOffset |-> 0, piCoefsNull |-> z,
         iCoefs |-> TableOf(NUM_POLYPHASE_TABLES * NUM_POLYPHASE_Y_ENTRIES)] :
           pl \in {"MHW_Y_PLANE", "MHW_U_PLANE"},
           ph \in {NUM_HW_POLYPHASE_TABLES, MHW_NUM_HW_POLYPHASE_TABLES},
           k \in Kernels, hp \in HPFilters, z \in BOOLEAN}
       \cup
       {[fn |-> f, dwPlane |-> "MHW_U_PLANE", dwHwPhase |-> MHW_TABLE_PHASE_COUNT,
         kernel |-> k, hp |-> [strength |-> 0, sinc |-> 0], iUvPhaseOffset |-> o,
         piCoefsNull |-> z,
         iCoefs |-> TableOf(MHW_TABLE_PHASE_COUNT * MHW_SCALER_UV_WIN_SIZE)] :
           f \in {"Mhw_CalcPolyphaseTablesUV", "Mhw_CalcPolyphaseTablesUVOffset"},
           k \in Kernels, o \in {0 - 8, 0, 8, 16}, z \in BOOLEAN}

InitPoly ==
    /\ poly \in PolyInputs
    /\ call = NoCall
    /\ params = DefaultParams
    /\ cmd = [i \in CmdIdx |-> Zero]
    /\ osResource = [gfx |-> {12, 32}, ctrl |-> Zero, idx |-> 0]
    /\ patchList = <<>>
    /\ nOps = 0
    /\ BbIdle
    /\ PrologIdle

PolyCallDone(r) ==
    /\ nOps < MaxCalls
    /\ poly' = [poly EXCEPT !.iCoefs = r.iCoefs]
    /\ call' = [op |-> poly.fn, status |-> r.status, pre |-> [iCoefs |-> poly.iCoefs]]
    /\ nOps' = nOps + 1
    /\ UNCHANGED <<params, cmd, patchList, osResource, bb, dev, listHead, prolog, stream>>

CalcPolyphaseTablesYCall ==
    /\ poly.fn = "Mhw_CalcPolyphaseTablesY"
    /\ PolyCallDone(Mhw_CalcPolyphaseTablesY(poly))

CalcPolyphaseTablesUVCall ==
    /\ poly.fn = "Mhw_CalcPolyphaseTablesUV"
    /\ PolyCallDone(Mhw_CalcPolyphaseTablesUV(poly))

CalcPolyphaseTablesUVOffsetCall ==
    /\ poly.fn = "Mhw_CalcPolyphaseTablesUVOffset"
    /\ PolyCallDone(Mhw_CalcPolyphaseTablesUVOffset(poly))

NextPoly ==
    CalcPolyphaseTablesYCall \/ CalcPolyphaseTablesUVCall \/ CalcPolyphaseTablesUVOffsetCall

SpecPoly == InitPoly /\ [][NextPoly]_vars

-----------------------------------------------------------------------------
(* Properties of Mhw_SetMocsTableIndex, checked under SpecMocs *)

MocsCalled == call.op = "Mhw_SetMocsTableIndex"
MocsArgs == params.mocsParams
MocsDest == MocsArgs.mocsTableIndex
MocsValidRange ==
    MocsArgs.bitFieldLow <= MocsArgs.bitFieldHigh /\ MocsArgs.bitFieldHigh <= 31
\* the bits of the destination field and the field's content as a number's bits
MocsField == BitRange(MocsArgs.bitFieldLow, MocsArgs.bitFieldHigh) \cap B32
MocsFieldContent(w) == Shr(w \cap MocsField, MocsArgs.bitFieldLow)
\* the call went past its checks and merged an index
MocsMerged ==
    /\ MocsCalled
    /\ params.presResource # Null
    /\ MocsDest # NullDw
    /\ MocsValidRange

\* C1: for every valid bit range (also one narrower than 6 bits), every initial
\* destination DWORD and every cache-control value, the resolver leaves every
\* bit of the destination outside [bitFieldLow, bitFieldHigh] unchanged.
C1_OutsideBitsUnchanged ==
    MocsMerged =>
        cmd[MocsDest] \ MocsField = call.pre.cmd[MocsDest] \ MocsField

\* C2 as stated: with a non-null resource and OS interface and an invalid bit
\* range (bitFieldLow > bitFieldHigh or bitFieldHigh > 31), for every
\* destination, the call returns MOS_STATUS_INVALID_PARAMETER and the
\* destination DWORD is not modified.
C2_InvalidRangeRejected_Original ==
    (MocsCalled /\ params.presResource # Null /\ ~MocsValidRange) =>
        /\ call.status = MOS_STATUS_INVALID_PARAMETER
        /\ cmd = call.pre.cmd

\* C2 as amended: with a non-null resource, OS interface and destination and an
\* invalid bit range the call returns MOS_STATUS_INVALID_PARAMETER and modifies
\* no DWORD; with a null destination it returns MOS_STATUS_SUCCESS whatever the
\* range, and modifies no DWORD either.
C2_InvalidRangeRejected ==
    (MocsCalled /\ params.presResource # Null /\ ~MocsValidRange) =>
        /\ cmd = call.pre.cmd
        /\ ~call.asked
        /\ call.status = IF MocsDest = NullDw THEN MOS_STATUS_SUCCESS
                                              ELSE MOS_STATUS_INVALID_PARAMETER

\* a call with a destination whose bounds are each at most 31 but in the wrong
\* order was rejected, the destination holding a non-zero pattern
C2_Witness ==
    /\ MocsCalled /\ params.presResource # Null /\ MocsDest # NullDw
    /\ MocsArgs.bitFieldLow > MocsArgs.bitFieldHigh
    /\ MocsArgs.bitFieldLow <= 31
    /\ call.status = MOS_STATUS_INVALID_PARAMETER
    /\ call.pre.cmd[MocsDest] = Alt32

-----------------------------------------------------------------------------
(* Properties of the address patching operations, checked under SpecPatch *)

GfxCalled == call.op = "Mhw_AddResourceToCmd_GfxAddress"
PlCalled  == call.op = "Mhw_AddResourceToCmd_PatchList"
Succeeded == call.status = MOS_STATUS_SUCCESS
\* the names of the steps the last call made, in order
StepNames == [i \in 1..Len(call.log) |-> call.log[i].fn]
Made(fn) == \E i \in 1..Len(call.log) : call.log[i].fn = fn
\* the position the call patched, its dwLsbNum and the reserved low bits
PatchAt  == call.pre.params.pdwCmd
LsbNum   == call.pre.params.dwLsbNum
Reserved == BitRange(0, LsbNum - 1)
\* the address A: resource address plus the offset aligned up to 2^dwLsbNum
AddressA ==
    Add64(osResource.gfx, MOS_ALIGN_CEIL(call.pre.params.dwOffset, {LsbNum}))

\* C4: whenever the device layer resolves the resource's graphics address to 0,
\* the direct path returns a failure status for every dwOffset and dwLsbNum,
\* writes no DWORD of the command buffer and records no patch entry.
C4_ZeroAddressRejected ==
    (GfxCalled /\ Made("GetResourceGfxAddress") /\ osResource.gfx = Zero) =>
        /\ ~Succeeded
        /\ cmd = call.pre.cmd
        /\ patchList = call.pre.patchList

\* C5: for every non-zero address A and every dwLsbNum in 0..31, a successful
\* direct patch with no MOCS destination leaves DW[1] = A >> 32 and
\* DW[0] = (previous DW[0] & (2^dwLsbNum - 1)) | (low32(A) & ~(2^dwLsbNum - 1));
\* so DW[1]:DW[0] and A agree above the low dwLsbNum bits, and the low dwLsbNum
\* bits of DW[0] keep their previous value.
C5_AddressSplit ==
    (GfxCalled /\ Succeeded /\ call.pre.params.mocsParams.mocsTableIndex = NullDw) =>
        LET A    == AddressA
            low  == cmd[PatchAt]
            high == cmd[PatchAt + 1]
            was  == call.pre.cmd[PatchAt]
        IN /\ A # Zero
           /\ high = {i \in B32 : i + 32 \in A}
           /\ low = (was \cap Reserved) \cup ((A \cap B32) \ Reserved)
           /\ Cat64(high, low) \ Reserved = A \ Reserved
           /\ low \cap Reserved = was \cap Reserved

\* a successful direct patch with 12 reserved bits, all set before the call, of
\* an address whose high DWORD is not zero
C5_Witness ==
    /\ GfxCalled /\ Succeeded
    /\ call.pre.params.mocsParams.mocsTableIndex = NullDw
    /\ LsbNum = 12
    /\ call.pre.cmd[PatchAt] = Ones32
    /\ AddressA = {13, 32}
    /\ cmd[PatchAt] = BitRange(0, 11) \cup {13}
    /\ cmd[PatchAt + 1] = {0}

C7_FailFast ==
    (GfxCalled \/ PlCalled) =>
        \A i \in 1..Len(call.log) :
            call.log[i].status # MOS_STATUS_SUCCESS =>
                /\ i = Len(call.log)
                /\ call.status = call.log[i].status

\* C17: in both patching operations the resource is registered with the device
\* layer, with write intent equal to bIsWritable, before any graphics-address
\* query, any command-buffer write and any set-patch-entry call for it; if the
\* registration fails, the operation returns that status with no command-buffer
\* DWORD written, no patch entry recorded and no OCA hook invoked.
C17_RegisteredFirst ==
    (GfxCalled \/ PlCalled) /\ call.log # <<>> =>
        /\ call.log[1].fn = "RegisterResource"
        /\ call.log[1].bWrite = call.pre.params.bIsWritable
        /\ \A i \in 2..Len(call.log) : call.log[i].fn # "RegisterResource"
        /\ call.log[1].status # MOS_STATUS_SUCCESS =>
              /\ call.status = call.log[1].status
              /\ Len(call.log) = 1
              /\ cmd = call.pre.cmd
              /\ patchList = call.pre.patchList

\* the registration of a read-only resource failed in a direct-path call that
\* would have written two address fields and dumped the resource
C17_Witness ==
    /\ GfxCalled
    /\ call.log # <<>>
    /\ call.log[1].status # MOS_STATUS_SUCCESS
    /\ ~call.pre.params.bIsWritable
    /\ call.pre.params.dwUpperBoundLocationOffsetFromCmd > 0
    /\ call.pre.params.HwCommandType \in s_OCAResourceInfoType
    /\ osResource.gfx # Zero

\* how often the last call made the step fn
Count(fn) == Cardinality({i \in 1..Len(call.log) : call.log[i].fn = fn})
\* the upper-bound field of the last call: its distance from the patched DWORD,
\* and the value (address A + dwSize aligned up to 2^dwLsbNum)
UbOffset == call.pre.params.dwUpperBoundLocationOffsetFromCmd
UpperBoundA == Add64(AddressA, MOS_ALIGN_CEIL(call.pre.params.dwSize, {LsbNum}))
\* the DWORD the MOCS merge of the last call may rewrite
MocsAt == call.pre.params.mocsParams.mocsTableIndex
\* the entries the last call recorded
NewEntries == SubSeq(patchList, Len(call.pre.patchList) + 1, Len(patchList))

\* C18: in Mhw_AddResourceToCmd_GfxAddress the upper-bound step runs iff
\* dwUpperBoundLocationOffsetFromCmd > 0 (in a call that got past its first
\* patch entry). It then writes the 64-bit value address + dwSize aligned up to
\* 2^dwLsbNum, split into two DWORDs with the same low-bit mask, at the DWORD
\* dwUpperBoundLocationOffsetFromCmd after the first patch location, and records
\* one further patch entry with bUpperBoundPatch = true, whose patch offset is
\* the first entry's + 4 * dwUpperBoundLocationOffsetFromCmd. When the field is
\* 0, no second location is written and no upper-bound entry is recorded.
C18_UpperBoundStep ==
    GfxCalled =>
        /\ (\E i \in 1..Len(call.log) : call.log[i] = Ok("SetPatchEntry"))
              => (Count("WriteCmd") = 2 <=> UbOffset > 0)
        /\ Count("WriteCmd") = 2 =>
              /\ UbOffset > 0
              /\ And(cmd[PatchAt + UbOffset], Reserved)
                    = And(call.pre.cmd[PatchAt + UbOffset], Reserved)
              /\ cmd[PatchAt + UbOffset] \ Reserved = Lo32(UpperBoundA) \ Reserved
              /\ cmd[PatchAt + UbOffset + 1] = Hi32(UpperBoundA)
              /\ Count("SetPatchEntry") = 2
              /\ Succeeded =>
                    /\ Len(NewEntries) = 2
                    /\ ~NewEntries[1].bUpperBoundPatch
                    /\ NewEntries[2].bUpperBoundPatch
                    /\ NewEntries[2].uiPatchOffset
                          = NewEntries[1].uiPatchOffset + 4 * UbOffset
        /\ UbOffset = 0 =>
              /\ Count("WriteCmd") <= 1
              /\ Count("SetPatchEntry") <= 1
              /\ \A i \in CmdIdx \ {PatchAt, PatchAt + 1, MocsAt} : cmd[i] = call.pre.cmd[i]
              /\ \A i \in 1..Len(NewEntries) : ~NewEntries[i].bUpperBoundPatch

\* a successful direct-path call with an upper-bound field two DWORDs on, 12
\* reserved bits and a size of 1 byte, which the alignment raises to 0x1000
C18_Witness ==
    /\ GfxCalled
    /\ Succeeded
    /\ UbOffset = 2
    /\ LsbNum = 12
    /\ call.pre.params.dwSize = {0}
    /\ call.pre.cmd[PatchAt + UbOffset] = Ones32
    /\ Len(NewEntries) = 2
    /\ NewEntries[2].bUpperBoundPatch
    /\ UpperBoundA = Add64(AddressA, {12})

\* C19: in both patching operations the OCA hook DumpResourceInfo is invoked
\* exactly once iff the call succeeds and HwCommandType is a member of
\* s_OCAResourceInfoType, and then only after every command-buffer write and
\* every patch entry of that call; it is never invoked on a failing call, and
\* invoking it does not change the status the operation returns.
C19_OcaHookLast ==
    (GfxCalled \/ PlCalled) =>
        /\ Count("DumpResourceInfo") <= 1
        /\ Count("DumpResourceInfo") = 1
              <=> Succeeded /\ call.pre.params.HwCommandType \in s_OCAResourceInfoType
        /\ Count("DumpResourceInfo") = 1 =>
              /\ call.log[Len(call.log)].fn = "DumpResourceInfo"
              /\ call.status = MOS_STATUS_SUCCESS
        /\ ~Succeeded => ~Made("DumpResourceInfo")

\* a successful deferred-path call for an allow-listed command type with an
\* upper-bound field: two patch entries, then the hook
C19_Witness ==
    /\ PlCalled
    /\ Succeeded
    /\ call.pre.params.HwCommandType = "MOS_MFX_PIPE_BUF_ADDR"
    /\ Count("SetPatchEntry") = 2
    /\ Len(NewEntries) = 2
    /\ call.log[Len(call.log)] = Ok("DumpResourceInfo")

\* whether the last call's patch type takes the raw DWORD as resource offset
RawType == call.pre.params.patchType \in RawOffsetPatchTypes

\* C20: in Mhw_AddResourceToCmd_PatchList the resource offset recorded in the
\* first patch entry is the raw value currently in the destination DWORD when
\* patchType is MOS_PATCH_TYPE_PITCH, MOS_PATCH_TYPE_UV_Y_OFFSET or
\* MOS_PATCH_TYPE_V_Y_OFFSET, and otherwise dwOffset OR-ed with the low dwLsbNum
\* bits of the destination DWORD; the deferred path writes no address into the
\* destination DWORD: outside a MOCS merge the command memory is unchanged.
C20_ResourceOffset ==
    PlCalled =>
        /\ Len(NewEntries) >= 1 =>
              NewEntries[1].uiResourceOffset
                 = IF RawType
                   THEN cmd[PatchAt]
                   ELSE Or(call.pre.params.dwOffset, LsbOf(cmd[PatchAt], LsbNum))
        /\ \A i \in CmdIdx \ {MocsAt} : cmd[i] = call.pre.cmd[i]

\* what the code records: the raw DWORD is read after the MOCS merge, the low
\* bits that are OR-ed into dwOffset are those the DWORD held before it
ResourceOffsetAsCoded ==
    PlCalled =>
        /\ Len(NewEntries) >= 1 =>
              NewEntries[1].uiResourceOffset
                 = IF RawType
                   THEN cmd[PatchAt]
                   ELSE Or(call.pre.params.dwOffset, LsbOf(call.pre.cmd[PatchAt], LsbNum))
        /\ \A i \in CmdIdx \ {MocsAt} : cmd[i] = call.pre.cmd[i]

\* the same with the DWORD as the call found it, for both kinds of patch type
ResourceOffsetFromDwordBefore ==
    PlCalled /\ Len(NewEntries) >= 1 =>
        NewEntries[1].uiResourceOffset
           = IF RawType
             THEN call.pre.cmd[PatchAt]
             ELSE Or(call.pre.params.dwOffset, LsbOf(call.pre.cmd[PatchAt], LsbNum))

\* the DWORDs of the address field and of the upper-bound field of the last call
PatchedDwords ==
    {PatchAt, PatchAt + 1}
      \cup (IF UbOffset > 0 THEN {PatchAt + UbOffset, PatchAt + UbOffset + 1} ELSE {})

\* C26: no partial composition: whenever Mhw_AddResourceToCmd_GfxAddress
\* returns a failure status, for any failing step, a failing first or second
\* set-patch-entry call included, the command-buffer DWORDs at the patch
\* location and at the upper-bound location, and the patch list, are exactly as
\* they were before the call.
C26_NoPartialComposition ==
    GfxCalled /\ ~Succeeded =>
        /\ \A i \in PatchedDwords : cmd[i] = call.pre.cmd[i]
        /\ patchList = call.pre.patchList

\* What holds: a call that fails before its first store (a null argument, a
\* failing registration, address 0) leaves the command memory and the patch list
\* as they were; a call that fails in pfnSetPatchEntry has stored the address.
NoCompositionBeforeFirstStore ==
    GfxCalled /\ ~Succeeded /\ ~Made("WriteCmd") =>
        cmd = call.pre.cmd /\ patchList = call.pre.patchList

\* C30: the patching operations leave the caller's parameter object unchanged
\* (dwOffset, dwSize and the destination pointer pdwCmd), so that a second
\* Mhw_AddResourceToCmd_GfxAddress or Mhw_AddResourceToCmd_PatchList with the
\* same parameter object, one with dwUpperBoundLocationOffsetFromCmd > 0
\* included, patches the same command-buffer DWORDs and records the same
\* resource offsets.
C30_ParamsUnchanged ==
    (GfxCalled \/ PlCalled) =>
        /\ params.dwOffset = call.pre.params.dwOffset
        /\ params.dwSize = call.pre.params.dwSize
        /\ params.pdwCmd = call.pre.params.pdwCmd

\* What the operations do to the parameter object: the direct path stores the
\* aligned dwOffset once the resource is registered and the aligned dwSize in
\* the upper-bound step; both paths advance pdwCmd by
\* dwUpperBoundLocationOffsetFromCmd in the upper-bound step, which is reached
\* when the first patch entry was set. Nothing else changes.
ParamsAsCoded ==
    (GfxCalled \/ PlCalled) =>
        LET reachedUb == UbOffset > 0
                           /\ \E i \in 1..Len(call.log) : call.log[i] = Ok("SetPatchEntry")
            aligned(x) == MOS_ALIGN_CEIL(x, {LsbNum})
        IN params =
             [call.pre.params EXCEPT
                !.dwOffset = IF GfxCalled /\ Len(call.log) >= 2 THEN aligned(@) ELSE @,
                !.dwSize   = IF GfxCalled /\ reachedUb THEN aligned(@) ELSE @,
                !.pdwCmd   = IF reachedUb THEN @ + UbOffset ELSE @]

-----------------------------------------------------------------------------
(* Properties of the batch buffer lifecycle, checked under SpecBb *)

LockCalled   == call.op = "Mhw_LockBb"
UnlockCalled == call.op = "Mhw_UnlockBb"
FreeCalled   == call.op = "Mhw_FreeBb"
\* the buffer the last call worked on, before and after, and its resource
BbBefore  == call.pre.bb
BbAfter   == bb[call.id]
DevBefore == call.pre.dev
DevAfter  == dev[call.id]
\* the device-layer calls the last call made, in order
DevCalls  == [i \in 1..Len(call.log) |-> call.log[i].fn]

\* C8: Mhw_LockBb on a buffer with bLocked = true and Mhw_UnlockBb on a buffer
\* with bLocked = false each return MOS_STATUS_UNKNOWN, issue no device-layer
\* lock or unlock call and leave every field of the batch buffer unchanged.
C8_WrongLockStateRejected ==
    ((LockCalled /\ BbBefore.bLocked) \/ (UnlockCalled /\ ~BbBefore.bLocked)) =>
        /\ call.status = MOS_STATUS_UNKNOWN
        /\ call.log = <<>>
        /\ BbAfter = BbBefore
        /\ DevAfter = DevBefore

\* Mhw_LockBb was called on a locked buffer that holds written commands
C8_Witness ==
    /\ LockCalled
    /\ BbBefore.bLocked
    /\ BbBefore.iCurrent > 0
    /\ DevBefore.state = "allocated"
    /\ call.arg.pData # Null
    /\ call.status = MOS_STATUS_UNKNOWN

\* C9: when the device layer's lock and unlock calls succeed, every step of an
\* alternating sequence Lock, Unlock(reset), Lock, ... on an allocated buffer
\* succeeds: Lock on an unlocked buffer succeeds and leaves it locked, Unlock on
\* a locked buffer succeeds and leaves it unlocked; after Unlock(reset = true)
\* iCurrent = 0 and iRemaining = iSize, and Unlock(reset = false) leaves
\* iCurrent and iRemaining as they were.
C9_RoundTrip ==
    /\ (LockCalled /\ DevBefore.state = "allocated" /\ ~BbBefore.bLocked
          /\ call.arg.pData # Null) =>
            /\ call.status = MOS_STATUS_SUCCESS
            /\ BbAfter.bLocked
            /\ BbAfter.iCurrent = BbBefore.iCurrent
            /\ BbAfter.iRemaining = BbBefore.iRemaining
    /\ (UnlockCalled /\ DevBefore.state = "allocated" /\ BbBefore.bLocked
          /\ call.arg.unlockStatus = MOS_STATUS_SUCCESS) =>
            /\ call.status = MOS_STATUS_SUCCESS
            /\ ~BbAfter.bLocked
            /\ call.arg.bResetBuffer =>
                  (BbAfter.iCurrent = 0 /\ BbAfter.iRemaining = BbAfter.iSize)
            /\ ~call.arg.bResetBuffer =>
                  (BbAfter.iCurrent = BbBefore.iCurrent
                     /\ BbAfter.iRemaining = BbBefore.iRemaining)

\* Unlock(reset = true) succeeded on a buffer that held written commands
C9_Witness ==
    /\ UnlockCalled
    /\ call.arg.bResetBuffer
    /\ call.status = MOS_STATUS_SUCCESS
    /\ BbBefore.iCurrent > 0
    /\ BbAfter.iCurrent = 0
    /\ BbAfter.iRemaining = BbAfter.iSize
    /\ BbAfter.iSize > 0

\* C10: every Mhw_FreeBb call on an allocated buffer, locked or not and
\* whatever the device layer answers, ends with the allocation released and
\* iSize = 0, count = 0, iCurrent = 0; when the buffer is locked the unlock
\* happens before the release.
C10_FreeAlwaysReleases ==
    (FreeCalled /\ DevBefore.state = "allocated") =>
        /\ DevAfter.state = "freed"
        /\ BbAfter.iSize = 0 /\ BbAfter.count = 0 /\ BbAfter.iCurrent = 0
        /\ BbBefore.bLocked => DevCalls = <<"UnlockResource", "FreeResource">>

\* What Mhw_FreeBb does guarantee: on an allocated buffer that is unlocked, or
\* locked with the device layer's unlock succeeding, it releases the allocation
\* and zeroes iSize, count and iCurrent, unlocking before the release; when the
\* unlock fails it returns that failure with the allocation still held, the
\* buffer still locked and iSize and count as they were.
FreeReleasesUnlessUnlockFails ==
    (FreeCalled /\ DevBefore.state = "allocated") =>
        IF ~BbBefore.bLocked \/ call.arg.unlockStatus = MOS_STATUS_SUCCESS
        THEN /\ call.status = MOS_STATUS_SUCCESS
             /\ DevAfter.state = "freed"
             /\ BbAfter.iSize = 0 /\ BbAfter.count = 0 /\ BbAfter.iCurrent = 0
             /\ DevCalls = IF BbBefore.bLocked
                           THEN <<"UnlockResource", "FreeResource">>
                           ELSE <<"FreeResource">>
        ELSE /\ call.status = call.arg.unlockStatus
             /\ DevAfter.state = "allocated"
             /\ DevCalls = <<"UnlockResource">>
             /\ BbAfter.iSize = BbBefore.iSize
             /\ BbAfter.count = BbBefore.count
             /\ BbAfter.bLocked

-----------------------------------------------------------------------------
(* Properties of the batch buffer list, checked under SpecList *)

\* the buffers of the caller that are allocated and not yet freed
LiveBbs == {i \in DOMAIN bb : dev[i].state = "allocated"}

\* the buffers visited from n by following pNext, at most k of them
RECURSIVE WalkNext(_, _)
WalkNext(n, k) ==
    IF n = NullBb \/ k = 0 THEN {} ELSE {n} \cup WalkNext(bb[n].pNext, k - 1)

\* the buffers visited from n by following pPrev, at most k of them
RECURSIVE WalkPrev(_, _)
WalkPrev(n, k) ==
    IF n = NullBb \/ k = 0 THEN {} ELSE {n} \cup WalkPrev(bb[n].pPrev, k - 1)

\* the last buffer reached from n by following pNext
RECURSIVE TailFrom(_, _)
TailFrom(n, k) ==
    IF n = NullBb \/ k = 0 THEN NullBb
    ELSE IF bb[n].pNext = NullBb \/ k = 1 THEN n
    ELSE TailFrom(bb[n].pNext, k - 1)

LinksConsistent ==
    \A n \in LiveBbs :
        /\ bb[n].pNext # NullBb => bb[bb[n].pNext].pPrev = n
        /\ bb[n].pPrev # NullBb => bb[bb[n].pPrev].pNext = n

HeadDesignatesLive ==
    IF LiveBbs = {} THEN listHead = NullBb
    ELSE listHead \in LiveBbs /\ bb[listHead].pPrev = NullBb

\* C11: after allocating buffers against one caller-owned list head and freeing
\* them in any order, after every free the caller's list head designates the
\* first not-yet-freed buffer (or the empty list), forward and backward traversal
\* visit exactly the not-yet-freed buffers, n.pNext.pPrev = n and
\* n.pPrev.pNext = n hold for every linked buffer, and no freed buffer is
\* reachable.
C11_ListConsistentAfterFree ==
    (call.op = "Mhw_FreeBb" /\ call.status = MOS_STATUS_SUCCESS) =>
        /\ HeadDesignatesLive
        /\ WalkNext(listHead, NumListBb) = LiveBbs
        /\ WalkPrev(TailFrom(listHead, NumListBb), NumListBb) = LiveBbs
        /\ LinksConsistent

\* C12: after a successful Mhw_AllocateBb with a list head supplied, the
\* caller's list head designates the newly allocated buffer, the new buffer's
\* pNext is the previous head, the previous head's pPrev is the new buffer, and
\* the new buffer's pPrev is null.
C12_InsertedAtHead ==
    (call.op = "Mhw_AllocateBb" /\ call.status = MOS_STATUS_SUCCESS
       /\ call.arg.list # NullBb) =>
        /\ listHead = call.id
        /\ bb[call.id].pNext = call.arg.list
        /\ bb[call.arg.list].pPrev = call.id
        /\ bb[call.id].pPrev = NullBb

\* What Mhw_AllocateBb does do with a non-null list head: it links the new
\* buffer in front of the buffer passed, and the caller's head stays as it was.
AllocateLinksObjectsOnly ==
    (call.op = "Mhw_AllocateBb" /\ call.status = MOS_STATUS_SUCCESS
       /\ call.arg.list # NullBb) =>
        /\ listHead = call.arg.list
        /\ bb[call.id].pNext = call.arg.list
        /\ bb[call.arg.list].pPrev = call.id
        /\ bb[call.id].pPrev = NullBb

\* C13: once Mhw_FreeBb has succeeded on a buffer, no later Mhw_LockBb,
\* Mhw_UnlockBb or Mhw_FreeBb on that buffer succeeds or issues a device-layer
\* lock, unlock or free call on the released allocation.
C13_FreedIsTerminal ==
    ((LockCalled \/ UnlockCalled \/ FreeCalled) /\ DevBefore.state = "freed") =>
        /\ call.status # MOS_STATUS_SUCCESS
        /\ call.log = <<>>

-----------------------------------------------------------------------------
(* Properties of allocation and of the device-layer calls, checked under SpecBb *)

AllocateCalled == call.op = "Mhw_AllocateBb"
\* the allocation requests of the last call
AllocRequests == {i \in 1..Len(call.log) : call.log[i].fn = "AllocateResource"}
\* alignUp(dwSize + 8 * cache-line size, page size) of the last call, modulo 2^32
PaddedWord ==
    MOS_ALIGN_CEIL(Add32(call.arg.dwSize, FromNat(8 * MHW_CACHELINE_SIZE)),
                   FromNat(MOS_PAGE_SIZE))
\* the same as a number, for sizes far below 2^31
PaddedNat ==
    ((ToInt32(call.arg.dwSize) + 8 * MHW_CACHELINE_SIZE + MOS_PAGE_SIZE - 1)
        \div MOS_PAGE_SIZE) * MOS_PAGE_SIZE

\* what Mhw_AllocateBb requests and, on success, records
AllocateRequestsAndRecords ==
    AllocateCalled =>
        /\ Cardinality(AllocRequests) = 1
        /\ \A i \in AllocRequests :
              /\ call.log[i].request.dwBytes = Mul32(PaddedWord, call.arg.batchCount)
              /\ 31 \notin call.arg.dwSize /\ 30 \notin call.arg.dwSize =>
                    call.log[i].request.dwBytes
                       = FromNat(PaddedNat * call.arg.batchCount)
              /\ call.log[i].request.Type = "MOS_GFXRES_BUFFER"
              /\ call.log[i].request.TileType = "MOS_TILE_LINEAR"
              /\ call.log[i].request.ResUsageType
                    = "MOS_HW_RESOURCE_USAGE_MEDIA_BATCH_BUFFERS"
              /\ call.status = call.log[i].status
        /\ call.status = MOS_STATUS_SUCCESS =>
              /\ BbAfter.iSize = ToInt32(PaddedWord)
              /\ BbAfter.count = call.arg.batchCount
              /\ BbAfter.iRemaining = BbAfter.iSize
              /\ BbAfter.iCurrent = 0
              /\ ~BbAfter.bLocked
              /\ ~BbAfter.bBusy
              /\ BbAfter.dwCmdBufId = 0
        /\ call.status # MOS_STATUS_SUCCESS => BbAfter = BbBefore /\ DevAfter = DevBefore

\* a step that is a failing Mhw_AllocateBb changes no batch buffer and no list
FailedAllocateChangesNothing ==
    (call'.op = "Mhw_AllocateBb" /\ call'.status # MOS_STATUS_SUCCESS) =>
        bb' = bb /\ dev' = dev /\ listHead' = listHead

\* C23: Mhw_AllocateBb issues exactly one device-layer allocation request, of
\* (alignUp(dwSize + 8 * cache-line size, page size) * batchCount) mod 2^32
\* bytes, as a linear buffer with usage class media-batch-buffers; on success it
\* records iSize = the padded per-slot size (not the total), count = batchCount,
\* iRemaining = iSize, iCurrent = 0, bLocked = false, bBusy = false and
\* dwCmdBufId = 0; if the allocation request fails it returns that status and
\* changes neither the batch buffer's fields nor the list.
C23_AllocateBookkeeping ==
    [](AllocateRequestsAndRecords) /\ [][FailedAllocateChangesNothing]_vars

\* a successful allocation of two slots of one page of payload each: 16384
\* bytes requested, 8192 recorded as iSize
C23_Witness ==
    /\ AllocateCalled
    /\ call.status = MOS_STATUS_SUCCESS
    /\ call.arg.dwSize = FromNat(MOS_PAGE_SIZE)
    /\ call.arg.batchCount = 2
    /\ call.log[1].request.dwBytes = FromNat(16384)
    /\ BbAfter.iSize = 8192
    /\ BbAfter.iRemaining = 8192

\* the memory pool and the not-lockable flag of every request of the last call
\* are those of the three accepted combinations of notLockable and inSystemMem
PoolOfAcceptedCombination ==
    \A i \in AllocRequests :
        /\ call.log[i].request.bNotLockable = call.arg.notLockable
        /\ call.log[i].request.dwMemType
              = IF call.arg.notLockable THEN "MOS_MEMPOOL_DEVICEMEMORY"
                ELSE IF call.arg.inSystemMem THEN "MOS_MEMPOOL_SYSTEMMEMORY"
                ELSE "MOS_MEMPOOL_VIDEOMEMORY"

\* C24: Mhw_AllocateBb never performs an allocation for the combination
\* notLockable = true and inSystemMem = true; for the other three combinations
\* the request's memory pool is device memory with the not-lockable flag set
\* (notLockable), system memory (inSystemMem), or video memory (neither).
C24_BothFlagsRejected ==
    AllocateCalled =>
        IF call.arg.notLockable /\ call.arg.inSystemMem
        THEN AllocRequests = {}
        ELSE PoolOfAcceptedCombination

\* What the code does: the request is made for all four combinations; with both
\* flags set it asks for not-lockable device memory.
AllocatesForEveryCombination ==
    AllocateCalled => Cardinality(AllocRequests) = 1 /\ PoolOfAcceptedCombination

\* the positions of the successful device-layer calls fn of the last call
Successful(fn) == {i \in 1..Len(call.log) : call.log[i] = Ok(fn)}

\* C27: across every sequence of Mhw_LockBb, Mhw_UnlockBb and Mhw_FreeBb calls
\* on one allocated batch buffer, with the device layer free to fail any lock or
\* unlock, the successful device-layer lock-resource and unlock-resource calls
\* for that buffer strictly alternate, starting with a lock: a locked resource
\* is never locked again, an unlocked one never unlocked again; and
\* free-resource is issued only when no device-layer lock is outstanding.
C27_LockUnlockAlternate ==
    /\ \A id \in BbIds : dev[id].state = "none" => ~dev[id].locked
    /\ AllocateCalled /\ call.status = MOS_STATUS_SUCCESS => ~DevAfter.locked
    /\ (LockCalled \/ UnlockCalled \/ FreeCalled) =>
          /\ Cardinality(Successful("LockResource"))
                + Cardinality(Successful("UnlockResource")) <= 1
          /\ Successful("LockResource") # {} => ~DevBefore.locked /\ DevAfter.locked
          /\ Successful("UnlockResource") # {} => DevBefore.locked /\ ~DevAfter.locked
          /\ Successful("LockResource") = {} /\ Successful("UnlockResource") = {} =>
                DevAfter.locked = DevBefore.locked
          /\ \A f \in Successful("FreeResource") :
                /\ ~DevAfter.locked
                /\ DevBefore.locked => \E u \in Successful("UnlockResource") : u < f

\* Mhw_FreeBb on a locked buffer: the device layer unlocked the resource and
\* then released it
C27_Witness ==
    /\ FreeCalled
    /\ DevBefore.locked
    /\ DevBefore.state = "allocated"
    /\ call.log = <<Ok("UnlockResource"), Ok("FreeResource")>>
    /\ DevAfter.state = "freed"

\* C28: in every state reachable from a successful Mhw_AllocateBb by any
\* sequence of Lock, Unlock (with or without reset) and Free calls, the batch
\* buffer's bookkeeping satisfies 0 <= iCurrent and iCurrent + iRemaining =
\* iSize; in particular after Free all three are 0.
C28_BookkeepingInvariant ==
    \A id \in BbIds :
        /\ dev[id].state # "none" =>
              /\ 0 <= bb[id].iCurrent
              /\ bb[id].iCurrent + bb[id].iRemaining = bb[id].iSize
        /\ dev[id].state = "freed" =>
              bb[id].iSize = 0 /\ bb[id].iCurrent = 0 /\ bb[id].iRemaining = 0

\* What holds: the bookkeeping adds up as long as the buffer is allocated; Free
\* zeroes iSize and iCurrent and leaves iRemaining as it was (for a locked
\* buffer: as the reset of the unlock inside Free set it).
BookkeepingWhileAllocated ==
    /\ \A id \in BbIds :
          /\ dev[id].state = "allocated" =>
                /\ 0 <= bb[id].iCurrent
                /\ bb[id].iCurrent + bb[id].iRemaining = bb[id].iSize
          /\ dev[id].state = "freed" => bb[id].iSize = 0 /\ bb[id].iCurrent = 0
    /\ FreeCalled /\ call.status = MOS_STATUS_SUCCESS /\ DevBefore.state = "allocated" =>
          BbAfter.iRemaining = IF BbBefore.bLocked THEN BbBefore.iSize
                               ELSE BbBefore.iRemaining

\* the device layer's unlock failed in the last call, an Mhw_UnlockBb or an
\* Mhw_FreeBb on a locked buffer
UnlockFailed ==
    /\ UnlockCalled \/ FreeCalled
    /\ BbBefore.bLocked
    /\ call.arg.unlockStatus # MOS_STATUS_SUCCESS

\* C29: if the device-layer unlock call fails inside Mhw_UnlockBb, called with
\* reset true or false on a locked buffer, Mhw_UnlockBb returns that failure and
\* the batch buffer is left exactly as before the call: bLocked = true, pData,
\* iCurrent and iRemaining unchanged; when this happens inside Mhw_FreeBb, Free
\* returns the failure without releasing the allocation or unlinking the buffer.
C29_FailedUnlockChangesNothing ==
    UnlockFailed =>
        /\ call.status = call.arg.unlockStatus
        /\ BbAfter.bLocked
        /\ BbAfter.pData = BbBefore.pData
        /\ BbAfter.iCurrent = BbBefore.iCurrent
        /\ BbAfter.iRemaining = BbBefore.iRemaining
        /\ FreeCalled =>
              /\ Successful("FreeResource") = {}
              /\ DevAfter = DevBefore
              /\ BbAfter.pNext = BbBefore.pNext /\ BbAfter.pPrev = BbBefore.pPrev

\* What holds: the failure is returned, the buffer stays locked with its pData,
\* nothing is released or unlinked; but the bookkeeping reset has been done
\* before the device layer was asked, whenever a reset was requested (Mhw_FreeBb
\* always requests it).
FailedUnlockKeepsLockOnly ==
    UnlockFailed =>
        /\ call.status = call.arg.unlockStatus
        /\ DevAfter = DevBefore
        /\ BbAfter = IF FreeCalled \/ call.arg.bResetBuffer
                     THEN [BbBefore EXCEPT !.iCurrent = 0, !.iRemaining = BbBefore.iSize]
                     ELSE BbBefore

-----------------------------------------------------------------------------
(* Properties of the prologue, checked under SpecProlog *)

PrologCalled == call.op = "Mhw_SendGenericPrologCmdNext"
PrologSucceeded == PrologCalled /\ call.status = MOS_STATUS_SUCCESS

\* the commands and hooks of the last prologue, in order, without the
\* device-layer queries
Emitted == SelectSeq(call.log, LAMBDA e : e.kind \in {"cmd", "hook"})

IsFlush(e) == e.fn \in {"PIPE_CONTROL", "MI_FLUSH_DW"}
\* the flush writes immediate data
WritesMarker(e) ==
    \/ e.fn = "PIPE_CONTROL" /\ e.par.dwPostSyncOp = "MHW_FLUSH_WRITE_IMMEDIATE_DATA"
    \/ e.fn = "MI_FLUSH_DW" /\ e.par.pOsResource # Null

\* what a command is, for the order of the prologue
Shape(e) ==
    IF e.fn = "PIPE_CONTROL"
    THEN <<e.fn, e.par.dwFlushMode, WritesMarker(e)>>
    ELSE IF e.fn = "MI_LOAD_REGISTER_IMM" THEN <<e.fn, e.par.dwRegister>>
    ELSE IF e.fn = "MI_BATCH_BUFFER_START" THEN <<e.fn, e.par.batchBuffer>>
    ELSE <<e.fn>>

Shapes == [i \in 1..Len(Emitted) |-> Shape(Emitted[i])]

\* the order the prologue is to have, with or without the watchdog timer start
ExpectedShapes(withWatchdog) ==
    (IF prolog.isGpuSyncByCmd /\ prolog.syncMhwBatchBuffer # Null
     THEN <<(<<"MI_BATCH_BUFFER_START", prolog.syncMhwBatchBuffer>>)>> ELSE <<>>)
    \o (IF withWatchdog THEN <<(<<"AddWatchdogTimerStartCmd">>)>> ELSE <<>>)
    \o (IF prolog.bRcsEngineUsed
        THEN <<(<<"PIPE_CONTROL", "MHW_FLUSH_WRITE_CACHE", FALSE>>),
               (<<"PIPE_CONTROL", "MHW_FLUSH_READ_CACHE", TRUE>>)>>
             \o (IF prolog.bUmdSSEUEnable
                 THEN <<(<<"MI_LOAD_REGISTER_IMM", "MHW__PWR_CLK_STATE_REG">>)>>
                 ELSE <<>>)
        ELSE <<(<<"MI_FLUSH_DW">>)>>)
    \o <<(<<"AddProtectedProlog">>)>>
    \o (IF prolog.pMmioReg # Null THEN <<(<<"On1stLevelBBStart">>)>> ELSE <<>>)

\* the positions of the flush commands before the protected prologue
FlushPositions ==
    {i \in 1..Len(Emitted) :
        /\ IsFlush(Emitted[i])
        /\ \E k \in (i + 1)..Len(Emitted) : Emitted[k].fn = "AddProtectedProlog"}

\* C14: the commands a successful Mhw_SendGenericPrologCmdNext emits are, in
\* this order: [batch-buffer-start to the sync batch buffer iff the context syncs
\* by command and a sync batch buffer is attached], [watchdog timer start], then
\* either (render class) write-cache-flush PIPE_CONTROL, read-cache-flush
\* PIPE_CONTROL with write-immediate-data, [MI_LOAD_REGISTER_IMM of the
\* power/clock state iff bUmdSSEUEnable] or (non-render class) exactly one
\* MI_FLUSH_DW, then the protected prologue, then [the OCA hook iff MMIO
\* registers are supplied]; a PIPE_CONTROL and an MI_FLUSH_DW are never both
\* emitted, and the write-immediate-data flush is the last flush-class command
\* before the protected prologue.
C14_PrologOrder ==
    PrologSucceeded =>
        /\ \E withWatchdog \in BOOLEAN : Shapes = ExpectedShapes(withWatchdog)
        /\ ~(\E i, k \in 1..Len(Emitted) :
                Emitted[i].fn = "PIPE_CONTROL" /\ Emitted[k].fn = "MI_FLUSH_DW")
        /\ FlushPositions # {}
        /\ \A i \in FlushPositions :
              (\A k \in FlushPositions : k <= i) => WritesMarker(Emitted[i])

\* a render-class prologue with everything optional present succeeded
C14_Witness ==
    /\ PrologSucceeded
    /\ prolog.bRcsEngineUsed
    /\ Len(Emitted) = 7
    /\ Emitted[1].fn = "MI_BATCH_BUFFER_START"
    /\ Emitted[2].fn = "AddWatchdogTimerStartCmd"
    /\ Emitted[5].fn = "MI_LOAD_REGISTER_IMM"
    /\ Emitted[7].fn = "On1stLevelBBStart"
    /\ Len(stream) = 6

\* the store-data parameters a flush carries
MarkerOf(e) ==
    IF e.fn = "PIPE_CONTROL"
    THEN <<e.par.presDest, e.par.dwResourceOffset, e.par.dwDataDW1>>
    ELSE <<e.par.pOsResource, e.par.dwResourceOffset, e.par.dwDataDW1>>

\* C15: in both engine-class branches of the prologue, the flush command that
\* performs the write-immediate-data carries the caller's three marker
\* parameters: destination resource presStoreData, offset dwStoreDataOffset and
\* marker value dwStoreDataValue.
C15_MarkerCarried ==
    PrologSucceeded =>
        \A i \in 1..Len(Emitted) :
            (IsFlush(Emitted[i]) /\ WritesMarker(Emitted[i])) =>
                MarkerOf(Emitted[i]) = <<prolog.presStoreData, prolog.dwStoreDataOffset,
                                         prolog.dwStoreDataValue>>

\* What the prologue does carry: the MI_FLUSH_DW of the non-render branch has
\* all three marker parameters; the PIPE_CONTROL of the render branch has the
\* resource and the offset, and its dwDataDW1 is left as reset.
MarkerCarriedAsCoded ==
    PrologSucceeded =>
        \A i \in 1..Len(Emitted) :
            (IsFlush(Emitted[i]) /\ WritesMarker(Emitted[i])) =>
                MarkerOf(Emitted[i]) =
                    <<prolog.presStoreData, prolog.dwStoreDataOffset,
                      IF Emitted[i].fn = "MI_FLUSH_DW" THEN prolog.dwStoreDataValue
                      ELSE ResetField>>

\* the positions of the watchdog timer starts of the last prologue
WatchdogPositions ==
    {i \in 1..Len(Emitted) : Emitted[i].fn = "AddWatchdogTimerStartCmd"}

\* exactly one watchdog timer start, after the sync batch-buffer-start if there
\* is one and before the first flush
OneWatchdogInPlace ==
    /\ Cardinality(WatchdogPositions) = 1
    /\ \A w \in WatchdogPositions, i \in 1..Len(Emitted) :
          /\ Emitted[i].fn = "MI_BATCH_BUFFER_START" => i < w
          /\ IsFlush(Emitted[i]) => w < i

\* C21 as stated: whenever the GPU context is render-, video- or vebox-class,
\* for every OS component, a successful prologue contains exactly one
\* watchdog timer start, after the optional sync batch-buffer-start and before
\* the first flush command; for every other GPU context it contains none.
C21_WatchdogEveryComponent_Original ==
    PrologSucceeded =>
        IF prolog.GpuContext \in WatchdogContexts
        THEN OneWatchdogInPlace
        ELSE WatchdogPositions = {}

\* C21, amended: whenever the GPU context is render-, video- or vebox-class and
\* the OS component is not COMPONENT_CM, a successful prologue contains exactly
\* one watchdog timer start, after the optional sync batch-buffer-start and
\* before the first flush command; for COMPONENT_CM and for every other GPU
\* context it contains none.
C21_WatchdogUnlessCm ==
    PrologSucceeded =>
        IF prolog.Component # "COMPONENT_CM" /\ prolog.GpuContext \in WatchdogContexts
        THEN OneWatchdogInPlace
        ELSE WatchdogPositions = {}

\* a successful prologue of COMPONENT_CM on the vebox context, with a sync
\* batch buffer, that holds no watchdog timer start
C21_Witness ==
    /\ PrologSucceeded
    /\ prolog.Component = "COMPONENT_CM"
    /\ prolog.GpuContext = "MOS_GPU_CONTEXT_VEBOX"
    /\ Emitted[1].fn = "MI_BATCH_BUFFER_START"
    /\ IsFlush(Emitted[2])
    /\ WatchdogPositions = {}

\* the steps of the last prologue that failed
FailedSteps == {i \in 1..Len(call.log) : call.log[i].status # MOS_STATUS_SUCCESS}

\* C22: if any step of Mhw_SendGenericPrologCmdNext fails (a null command
\* buffer, parameters, OS interface, MI interface, SKU or WA table, or a failing
\* add-command for batch-buffer-start, watchdog, PIPE_CONTROL,
\* MI_LOAD_REGISTER_IMM, MI_FLUSH_DW or the protected prologue), the function
\* returns that failure status unchanged, emits no command after the failing
\* step and does not invoke the OCA first-level-batch-buffer-start hook.
C22_PrologFailFast ==
    PrologCalled =>
        /\ prolog.nullArg # "none" =>
              /\ call.status = MOS_STATUS_NULL_POINTER
              /\ call.log = <<>>
              /\ stream = call.pre.stream
        /\ \A i \in FailedSteps :
              /\ call.status = call.log[i].status
              /\ i = Len(call.log)
              /\ \A k \in 1..Len(call.log) : call.log[k].kind # "hook"
              /\ Len(stream) = Len(call.pre.stream) + CmdCount(call.log, i - 1)
        /\ call.status # MOS_STATUS_SUCCESS =>
              /\ prolog.nullArg # "none" \/ FailedSteps # {}
              /\ \A k \in 1..Len(call.log) : call.log[k].fn # "On1stLevelBBStart"

\* the second PIPE_CONTROL of a render-class prologue failed, after the sync
\* batch-buffer-start, the watchdog timer start and the first PIPE_CONTROL, with
\* MMIO registers supplied for the hook
C22_Witness ==
    /\ PrologCalled
    /\ call.status = MOS_STATUS_NO_SPACE
    /\ prolog.pMmioReg # Null
    /\ prolog.bUmdSSEUEnable
    /\ Len(Emitted) = 4
    /\ Emitted[1].fn = "MI_BATCH_BUFFER_START"
    /\ Emitted[4].fn = "PIPE_CONTROL"
    /\ Emitted[4].status = MOS_STATUS_NO_SPACE
    /\ Len(stream) = 3

-----------------------------------------------------------------------------
(* Properties of the polyphase calculators, checked under SpecPoly *)

PolyCalled == call.op \in {"Mhw_CalcPolyphaseTablesY", "Mhw_CalcPolyphaseTablesUV",
                           "Mhw_CalcPolyphaseTablesUVOffset"}
PolySucceeded == PolyCalled /\ call.status = MOS_STATUS_SUCCESS

\* the table's geometry and fixed-point unit for the function called
PolyIsY == poly.fn = "Mhw_CalcPolyphaseTablesY"
PolyTaps == IF PolyIsY THEN NumEntriesY(poly.dwPlane) ELSE MHW_SCALER_UV_WIN_SIZE
PolyPhases == IF PolyIsY THEN poly.dwHwPhase ELSE MHW_TABLE_PHASE_COUNT
PolyUnit == IF PolyIsY THEN 2^MHW_AVS_TBL_COEF_PREC ELSE 2^MHW_TBL_COEF_PREC
PolyCenter == PolyTaps \div 2 - 1
\* row i of the table, and the row the quantization step produced for it
PolyRow(i) == [j \in 0..(PolyTaps - 1) |-> poly.iCoefs[i * PolyTaps + j]]
PolyQuantRow(i) == IF PolyIsY THEN QuantRowY(poly, i) ELSE QuantRowUV(poly, i)

\* C16: for every phase row produced by Mhw_CalcPolyphaseTablesY,
\* Mhw_CalcPolyphaseTablesUV and Mhw_CalcPolyphaseTablesUVOffset, whatever
\* integers the quantization step produced for the row, the row's coefficients
\* sum to exactly the fixed-point unit after the correction, and the correction
\* changes one tap of the row only: the center tap or the center + 1 tap.
C16_RowsSumToUnit ==
    PolySucceeded =>
        \A i \in 0..(PolyPhases - 1) :
            /\ SumTo(PolyRow(i), PolyTaps) = PolyUnit
            /\ \E t \in {PolyCenter, PolyCenter + 1} :
                  \A j \in 0..(PolyTaps - 1) \ {t} : PolyRow(i)[j] = PolyQuantRow(i)[j]

\* a luma table of 32 phases with the high-pass filter on, in which the
\* quantized rows of a phase below and a phase above the middle did not sum to
\* the unit and were fixed at the center and the center + 1 tap
C16_Witness ==
    /\ PolySucceeded
    /\ PolyIsY
    /\ IsLumaPlane(poly.dwPlane)
    /\ poly.dwHwPhase = MHW_NUM_HW_POLYPHASE_TABLES
    /\ poly.hp.strength = 1
    /\ SumTo(PolyQuantRow(3), PolyTaps) # PolyUnit
    /\ PolyRow(3)[PolyCenter] # PolyQuantRow(3)[PolyCenter]
    /\ SumTo(PolyQuantRow(20), PolyTaps) # PolyUnit
    /\ PolyRow(20)[PolyCenter + 1] # PolyQuantRow(20)[PolyCenter + 1]

\* the kernel row of phase i of the last luma call, and the sum over the
\* in-range k of fPhaseCoefsCopy[j + k] * fHPFilter[k + 1], assigned once
LumaCopy(i) == KernelRow(poly.kernel, i, PolyTaps)
AssignedOnce(i) ==
    [j \in 0..(PolyTaps - 1) |->
        (IF j >= 1 THEN LumaCopy(i)[j - 1] * HPFilter(poly.hp, i)[0] ELSE 0)
        + LumaCopy(i)[j] * HPFilter(poly.hp, i)[1]
        + (IF j + 1 < PolyTaps THEN LumaCopy(i)[j + 1] * HPFilter(poly.hp, i)[2] ELSE 0)]

\* C25: in the luma high-pass convolution of Mhw_CalcPolyphaseTablesY, where
\* fPhaseCoefs[j] is assigned on every iteration of the k loop, the value left
\* in fPhaseCoefs[j] is the accumulator after the iteration k = 1, which for
\* every tap j, the boundary taps included, is the sum over the in-range k in
\* {-1, 0, 1} of fPhaseCoefsCopy[j + k] * fHPFilter[k + 1]: the table is the one
\* that assigning once after the k loop produces.
C25_ConvolutionAssignedOnce ==
    PolySucceeded /\ PolyIsY /\ IsLumaPlane(poly.dwPlane) =>
        \A i \in 0..(PolyPhases - 1) :
            /\ HPConvolve(LumaCopy(i), HPFilter(poly.hp, i), PolyTaps) = AssignedOnce(i)
            /\ PolyRow(i)
                  = CorrectedRow(QuantizeRow(AssignedOnce(i), SumTo(LumaCopy(i), PolyTaps),
                                             PolyUnit, PolyTaps),
                                 FixTapY(poly, i), PolyUnit, PolyTaps)

\* a luma table made with the high-pass filter on and a side tap that is not 0,
\* in which the convolution changed both boundary taps of phase 1
C25_Witness ==
    /\ PolySucceeded
    /\ PolyIsY
    /\ IsLumaPlane(poly.dwPlane)
    /\ poly.hp.strength = 1
    /\ poly.hp.sinc = 1
    /\ AssignedOnce(1)[0] # LumaCopy(1)[0] * HPFilter(poly.hp, 1)[1]
    /\ AssignedOnce(1)[PolyTaps - 1] # LumaCopy(1)[PolyTaps - 1] * HPFilter(poly.hp, 1)[1]
    /\ PolyRow(1) # QuantizeRow(LumaCopy(1), SumTo(LumaCopy(1), PolyTaps), PolyUnit, PolyTaps)

====
